---- MODULE Spec2Model ----
(***************************************************************************)
(* A model of bitarchitect (src/src/bitarchitect): the bit-level buffer    *)
(* BitsIO over an io.BytesIO, the helpers of bit_utils.py, and the         *)
(* Extractor / Constructor of pattern.py.                                  *)
(*                                                                         *)
(* Python values are modelled as follows.  A bytes object is a sequence of *)
(* integers 0..255.  An exception is the non-empty string err of the       *)
(* record an operator returns (the name of the exception class); a record  *)
(* whose err is set is never used again, as the exception ends the run.    *)
(***************************************************************************)
EXTENDS Integers, Sequences, FiniteSets, TLC

(***************************************************************************)
(* bit_utils.py                                                            *)
(***************************************************************************)

\* 1 << n
RECURSIVE Pow2(_)
Pow2(n) == IF n <= 0 THEN 1 ELSE 2 * Pow2(n - 1)

\* int(floor(1+log(uint,2))) if uint > 0 else 0
RECURSIVE min_bits_uint(_)
min_bits_uint(uint) == IF uint <= 0 THEN 0 ELSE 1 + min_bits_uint(uint \div 2)

\* the guard of invert_uint and reverse_uint: the value must fit num_bits
uint_fits(uint, num_bits) == uint >= 0 /\ min_bits_uint(uint) <= num_bits

\* uint ^ ((1<<num_bits)-1), for a uint that fits num_bits
invert_uint(uint, num_bits) == (Pow2(num_bits) - 1) - uint

\* the while loop of reverse_uint
RECURSIVE reverse_uint_loop(_, _, _, _)
reverse_uint_loop(uint, num_bits, result, extracted_bits) ==
    IF extracted_bits < num_bits \/ uint # 0
    THEN reverse_uint_loop(uint \div 2, num_bits, 2 * result + (uint % 2),
                           extracted_bits + 1)
    ELSE result

reverse_uint(uint, num_bits) == reverse_uint_loop(uint, num_bits, 0, 0)

reverse_byte_table(value) == reverse_uint(value, 8)
invert_byte_table(value) == invert_uint(value, 8)

\* (((1<<k)-1)<<(8-k)) & value, for a byte value and 0 <= k <= 8
lmask_byte(num_mask_bits, value) == value - (value % Pow2(8 - num_mask_bits))

\* ((1<<k)-1) & value
rmask_byte(num_mask_bits, value) == value % Pow2(num_mask_bits)

\* Python's s[::-1]
ReverseSeq(s) == [i \in 1..Len(s) |-> s[Len(s) + 1 - i]]

\* Python's s[k:] for k >= 0
SliceFrom(s, k) == SubSeq(s, k + 1, Len(s))

\* Python's s[:-k] for k >= 0; s[:-0] is s[:0], the empty sequence
SliceDropLast(s, k) == IF k = 0 THEN << >> ELSE SubSeq(s, 1, Len(s) - k)

\* sum((b<<(8*(n-p-1))) for p,b in enumerate(bytes_data))
RECURSIVE SumBytes(_, _, _)
SumBytes(bytes_data, n, p) ==
    IF p >= Len(bytes_data) THEN 0
    ELSE bytes_data[p + 1] * Pow2(8 * (n - p - 1)) + SumBytes(bytes_data, n, p + 1)

\* bytes_to_uint, the invert step: every byte through invert_byte_table
btu_invert(bytes_data, invert) ==
    IF invert THEN [i \in 1..Len(bytes_data) |-> invert_byte_table(bytes_data[i])]
    ELSE bytes_data

\* bytes_data[0] = rmask_byte(8-lstrip, bytes_data[0]) if len(bytes_data) > 0
mask_first_byte(bytes_data, num_mask_bits) ==
    IF Len(bytes_data) > 0
    THEN [bytes_data EXCEPT ![1] = rmask_byte(num_mask_bits, bytes_data[1])]
    ELSE bytes_data

\* bytes_data[-1] = lmask_byte(8-rstrip, bytes_data[-1]) if len(bytes_data) > 0
mask_last_byte(bytes_data, num_mask_bits) ==
    IF Len(bytes_data) > 0
    THEN [bytes_data EXCEPT
            ![Len(bytes_data)] = lmask_byte(num_mask_bits, bytes_data[Len(bytes_data)])]
    ELSE bytes_data

\* bytes_to_uint, the lstrip step
btu_lstrip(bytes_data, lstrip) ==
    IF lstrip > 0
    THEN mask_first_byte(SliceFrom(bytes_data, lstrip \div 8), 8 - (lstrip % 8))
    ELSE bytes_data

\* bytes_to_uint, the rstrip step
btu_rstrip(bytes_data, rstrip) ==
    IF rstrip > 0
    THEN mask_last_byte(SliceDropLast(bytes_data, rstrip \div 8), 8 - (rstrip % 8))
    ELSE bytes_data

\* bytes(reverse_byte_table[x] for x in bytes_data[::-1])
reverse_table_bytes(bytes_data, reverse) ==
    IF reverse
    THEN [i \in 1..Len(bytes_data) |->
            reverse_byte_table(bytes_data[Len(bytes_data) + 1 - i])]
    ELSE bytes_data

\* bytes_to_uint, the sum and the final shift; n is the length of the
\* bytes_data passed in, lstrip and rstrip are taken modulo 8
btu_value(bytes_data, n, lstrip, rstrip, reverse) ==
    IF ~reverse
    THEN SumBytes(bytes_data, n, 0) \div Pow2(IF rstrip > 0 THEN rstrip % 8 ELSE rstrip)
    ELSE SumBytes(bytes_data, n, 0) \div Pow2(IF lstrip > 0 THEN lstrip % 8 ELSE lstrip)

\* bytes_to_uint from the rstrip check on; bytes_data is what lstrip left
btu_after_lstrip(bytes_data, n, lstrip, rstrip, reverse) ==
    IF rstrip < 0 \/ (rstrip > 0 /\ rstrip > Len(bytes_data) * 8)
    THEN [err |-> "Exception", value |-> 0, num_bits |-> 0]
    ELSE [err |-> "",
          value |-> btu_value(reverse_table_bytes(btu_rstrip(bytes_data, rstrip), reverse),
                              n, lstrip, rstrip, reverse),
          num_bits |-> n * 8 - lstrip - rstrip]

\* bytes_to_uint(bytes_data,lstrip,rstrip,reverse,invert) -> (value, num_bits)
bytes_to_uint(bytes_data, lstrip, rstrip, reverse, invert) ==
    IF lstrip < 0 \/ (lstrip > 0 /\ lstrip > Len(bytes_data) * 8)
    THEN [err |-> "Exception", value |-> 0, num_bits |-> 0]
    ELSE btu_after_lstrip(btu_lstrip(btu_invert(bytes_data, invert), lstrip),
                          Len(bytes_data), lstrip, rstrip, reverse)

\* int(ceil(num_bits/8))
Ceil8(num_bits) == -((-num_bits) \div 8)

\* uint_to_bytes: for byte_i in range(num_bytes): uint,value = divmod(uint,256)
utb_divmod(uint, num_bytes) ==
    [i \in 1..num_bytes |-> (uint \div Pow2(8 * (i - 1))) % 256]

\* uint_to_bytes: bytes_data[-1] = rmask_byte(8-loffset,bytes_data[-1]) +
\* lmask_byte(loffset,lvalue), on the list still in little-endian order
utb_lmerge(bytes_data, loffset, lvalue) ==
    IF loffset > 0
    THEN [bytes_data EXCEPT ![Len(bytes_data)] =
            rmask_byte(8 - loffset, bytes_data[Len(bytes_data)])
            + lmask_byte(loffset, lvalue)]
    ELSE bytes_data

\* uint_to_bytes: bytes_data[0] = lmask_byte(8-roffset,bytes_data[0]) +
\* rmask_byte(roffset,rvalue)
utb_rmerge(bytes_data, roffset, rvalue) ==
    IF roffset > 0
    THEN [bytes_data EXCEPT ![1] =
            lmask_byte(8 - roffset, bytes_data[1]) + rmask_byte(roffset, rvalue)]
    ELSE bytes_data

\* uint_to_bytes once num_bytes and roffset are known
utb_build(uint, num_bytes, loffset, roffset, lvalue, rvalue, reverse, invert) ==
    IF (loffset > 0 \/ roffset > 0) /\ num_bytes <= 0
    THEN [err |-> "IndexError", bytes |-> << >>]
    ELSE [err |-> "",
          bytes |-> ReverseSeq(
             utb_rmerge(
               utb_lmerge(
                 btu_invert(
                   reverse_table_bytes(
                     utb_divmod(IF ~reverse THEN uint * Pow2(roffset)
                                ELSE uint * Pow2(loffset),
                                IF num_bytes < 0 THEN 0 ELSE num_bytes),
                     reverse),
                   invert),
                 loffset, lvalue),
               roffset, rvalue))]

\* uint_to_bytes(uint,num_bits,loffset,lvalue,rvalue,reverse,invert) -> bytes
uint_to_bytes(uint, num_bits, loffset, lvalue, rvalue, reverse, invert) ==
    LET roffset0 == Ceil8(num_bits) * 8 - num_bits - loffset
    IN  IF \/ uint < 0
           \/ loffset >= 8 \/ loffset < 0
           \/ lvalue < 0 \/ lvalue > 255
           \/ rvalue < 0 \/ rvalue > 255
           \/ min_bits_uint(uint) > (IF num_bits < 0 THEN -num_bits ELSE num_bits)
        THEN [err |-> "Exception", bytes |-> << >>]
        ELSE utb_build(uint,
                       IF roffset0 < 0 THEN Ceil8(num_bits) + 1 ELSE Ceil8(num_bits),
                       loffset,
                       IF roffset0 < 0 THEN roffset0 + 8 ELSE roffset0,
                       lvalue, rvalue, reverse, invert)

(***************************************************************************)
(* bits_io.py: BitsIO over an io.BytesIO.  A BitsIO is the record          *)
(*   [buf |-> the bytes of byte_source, pos |-> byte_source.tell(),        *)
(*    bit_seek_pos |-> the bit cursor, err |-> the exception raised].      *)
(***************************************************************************)
SEEK_SET == 0
SEEK_CUR == 1
SEEK_END == 2

Max(a, b) == IF a >= b THEN a ELSE b

\* BitsIO(byte_source) for a bytes object or a fresh io.BytesIO
BitsIO_init(byte_source) ==
    [buf |-> byte_source, pos |-> 0, bit_seek_pos |-> 0, err |-> ""]

\* io.BytesIO.seek(offset, whence): a negative absolute position raises
\* ValueError, a relative one is clamped at 0; seeking past the end is allowed
BytesIO_seek(io, offset, whence) ==
    IF whence = SEEK_SET
    THEN (IF offset < 0 THEN [io EXCEPT !.err = "ValueError"]
          ELSE [io EXCEPT !.pos = offset])
    ELSE IF whence = SEEK_CUR
    THEN [io EXCEPT !.pos = Max(0, io.pos + offset)]
    ELSE [io EXCEPT !.pos = Max(0, Len(io.buf) + offset)]

\* io.BytesIO.read(size): the bytes read
BytesIO_read_data(io, size) ==
    IF io.pos >= Len(io.buf) THEN << >>
    ELSE SubSeq(io.buf, io.pos + 1,
                IF io.pos + size > Len(io.buf) THEN Len(io.buf) ELSE io.pos + size)

\* io.BytesIO.read(size): the position moves past the bytes read
BytesIO_read(io, size) ==
    [io EXCEPT !.pos = io.pos + Len(BytesIO_read_data(io, size))]

\* io.BytesIO.write(data): overwrites and extends, zero-padding a gap
BytesIO_write(io, data) ==
    IF Len(data) = 0 THEN io
    ELSE LET newlen == Max(Len(io.buf), io.pos + Len(data))
         IN  [io EXCEPT
                !.buf = [i \in 1..newlen |->
                           IF i > io.pos /\ i <= io.pos + Len(data) THEN data[i - io.pos]
                           ELSE IF i <= Len(io.buf) THEN io.buf[i]
                           ELSE 0],
                !.pos = io.pos + Len(data)]

\* BitsIO.seek: self.bit_seek_pos = self.byte_source.tell()*8 + remainder_bits
seek_bit_pos(byte_source, remainder_bits) ==
    IF byte_source.err # "" THEN byte_source
    ELSE [byte_source EXCEPT !.bit_seek_pos = byte_source.pos * 8 + remainder_bits]

\* BitsIO.seek(offset_bits, whence)
BitsIO_seek(io, offset_bits, whence) ==
    seek_bit_pos(BytesIO_seek(io, offset_bits \div 8, whence), offset_bits % 8)

\* BitsIO.tell()
BitsIO_tell(io) == io.bit_seek_pos

\* BitsIO.__len__(): end = self.seek(0,SEEK_END); the value returned
BitsIO_len(io) == BitsIO_seek(io, 0, SEEK_END).bit_seek_pos

\* BitsIO.__len__(): the stream afterwards (self.seek(pos))
BitsIO_len_io(io) == BitsIO_seek(BitsIO_seek(io, 0, SEEK_END), io.bit_seek_pos, SEEK_SET)

\* BitsIO.read from value,num_bits = bytes_to_uint(...) on: io is the stream
\* after byte_source.read, r the result of bytes_to_uint
read_result(io, r, end_pos) ==
    IF r.err # "" THEN [io |-> [io EXCEPT !.err = r.err], value |-> 0, num_bits |-> 0]
    ELSE [io |-> BitsIO_seek(io, end_pos, SEEK_SET),
          value |-> r.value, num_bits |-> r.num_bits]

\* BitsIO.read from bytes_data = self.byte_source.read(num_bytes) on
read_span(io, num_bytes, lstrip, rstrip, reverse, end_pos) ==
    read_result(BytesIO_read(io, num_bytes),
                bytes_to_uint(BytesIO_read_data(io, num_bytes), lstrip, rstrip,
                              reverse, FALSE),
                end_pos)

\* BitsIO.read(n) with reverse=False, invert=False:
\* [io |-> the stream afterwards, value, num_bits]
BitsIO_read(io, n) ==
    LET start_pos == io.bit_seek_pos
        end_pos == io.bit_seek_pos + n
        offset_bytes == (end_pos \div 8) - (start_pos \div 8)
    IN  IF n = 0 THEN [io |-> io, value |-> 0, num_bits |-> 0]
        ELSE IF n > 0
        THEN read_span(io,
                       offset_bytes + (IF end_pos % 8 > 0 THEN 1 ELSE 0),
                       start_pos % 8,
                       IF end_pos % 8 > 0 THEN 8 - (end_pos % 8) ELSE 0,
                       FALSE, end_pos)
        ELSE read_span(BytesIO_seek(io, offset_bytes, SEEK_CUR),
                       -offset_bytes + (IF start_pos % 8 > 0 THEN 1 ELSE 0),
                       end_pos % 8,
                       IF start_pos % 8 > 0 THEN 8 - (start_pos % 8) ELSE 0,
                       TRUE, end_pos)

\* BitsIO.write from bytes_data = uint_to_bytes(...) on: io is the stream
\* after byte_source.seek(first_byte_pos), w the result of uint_to_bytes
write_bytes_data(io, w, end_pos) ==
    IF io.err # "" THEN io
    ELSE IF w.err # "" THEN [io EXCEPT !.err = w.err]
    ELSE BitsIO_seek(BytesIO_write(io, w.bytes), end_pos, SEEK_SET)

\* BitsIO.write from self.byte_source.seek(first_byte_pos) on
write_span(io, value, n, loffset, first_byte, last_byte, reverse, first_byte_pos, end_pos) ==
    write_bytes_data(BytesIO_seek(io, first_byte_pos, SEEK_SET),
                     uint_to_bytes(value, n, loffset, first_byte, last_byte, reverse,
                                   FALSE),
                     end_pos)

\* BitsIO.write, if roffset > 0, after self.byte_source.seek(last_byte_pos):
\* last_byte = list(self.byte_source.read(1))[0]
write_last_byte(io, value, n, loffset, first_byte, reverse, first_byte_pos, end_pos) ==
    IF io.err # "" THEN io
    ELSE IF Len(BytesIO_read_data(io, 1)) = 0
    THEN [BytesIO_read(io, 1) EXCEPT !.err = "IndexError"]
    ELSE write_span(BytesIO_read(io, 1), value, n, loffset, first_byte,
                    BytesIO_read_data(io, 1)[1], reverse, first_byte_pos, end_pos)

\* BitsIO.write from last_byte_lmask = ((loffset + n)%8) on
write_roffset(io, value, n, loffset, first_byte, reverse, first_byte_pos, last_byte_pos, end_pos) ==
    IF (8 - ((loffset + n) % 8)) % 8 > 0
    THEN write_last_byte(BytesIO_seek(io, last_byte_pos, SEEK_SET), value, n, loffset,
                         first_byte, reverse, first_byte_pos, end_pos)
    ELSE write_span(io, value, n, loffset, first_byte, 0, reverse, first_byte_pos,
                    end_pos)

\* BitsIO.write from if loffset > 0 on:
\* first_byte = list(self.byte_source.read(1))[0]
write_first_byte(io, value, n, loffset, reverse, first_byte_pos, last_byte_pos, end_pos) ==
    IF io.err # "" THEN io
    ELSE IF loffset > 0
    THEN (IF Len(BytesIO_read_data(io, 1)) = 0
          THEN [BytesIO_read(io, 1) EXCEPT !.err = "IndexError"]
          ELSE write_roffset(BytesIO_read(io, 1), value, n, loffset,
                             BytesIO_read_data(io, 1)[1], reverse, first_byte_pos,
                             last_byte_pos, end_pos))
    ELSE write_roffset(io, value, n, loffset, 0, reverse, first_byte_pos,
                       last_byte_pos, end_pos)

\* BitsIO.write(value, n) with reverse=False, invert=False
BitsIO_write(io, value, n) ==
    LET start_pos == io.bit_seek_pos
        end_pos == io.bit_seek_pos + n
    IN  IF n = 0 THEN io
        ELSE IF n > 0
        THEN write_first_byte(io, value, n, start_pos % 8, FALSE,
                              start_pos \div 8, end_pos \div 8, end_pos)
        ELSE write_first_byte(BytesIO_seek(io, end_pos \div 8, SEEK_SET), value, n,
                              end_pos % 8, TRUE,
                              end_pos \div 8, start_pos \div 8, end_pos)

\* the last self.seek(start_pos) of BitsIO.reverse and BitsIO.invert
seek_back(io, start_pos) ==
    IF io.err # "" THEN io ELSE BitsIO_seek(io, start_pos, SEEK_SET)

\* BitsIO.reverse after value,num_bits = self.read(n)
reverse_read(r, start_pos) ==
    IF r.io.err # "" THEN r.io
    ELSE IF ~uint_fits(r.value, r.num_bits) THEN [r.io EXCEPT !.err = "Exception"]
    ELSE seek_back(BitsIO_write(BitsIO_seek(r.io, start_pos, SEEK_SET),
                                reverse_uint(r.value, r.num_bits), r.num_bits),
                   start_pos)

\* BitsIO.reverse(n)
BitsIO_reverse(io, n) == reverse_read(BitsIO_read(io, n), BitsIO_tell(io))

\* BitsIO.invert after value,num_bits = self.read(n)
invert_read(r, start_pos) ==
    IF r.io.err # "" THEN r.io
    ELSE IF ~uint_fits(r.value, r.num_bits) THEN [r.io EXCEPT !.err = "Exception"]
    ELSE seek_back(BitsIO_write(BitsIO_seek(r.io, start_pos, SEEK_SET),
                                invert_uint(r.value, r.num_bits), r.num_bits),
                   start_pos)

\* BitsIO.invert(n)
BitsIO_invert(io, n) == invert_read(BitsIO_read(io, n), BitsIO_tell(io))

\* bytes.find(sub): the lowest index where sub starts in data, -1 if none
bytes_find(data, sub) ==
    LET hits == {i \in 0..(Len(data) - Len(sub)) :
                    SubSeq(data, i + 1, i + Len(sub)) = sub}
    IN  IF hits = {} THEN -1
        ELSE CHOOSE i \in hits : \A j \in hits : i <= j

\* a find that searches the buffer from its first byte, not from the cursor
BitsIO_find_from_start(io, sub) ==
    IF BitsIO_tell(io) % 8 # 0
    THEN [io |-> [io EXCEPT !.err = "Exception"], value |-> 0]
    ELSE [io |-> io, value |-> bytes_find(io.buf, sub) * 8]

\* BitsIO.find(sub): [io |-> the stream afterwards, value |-> what is returned]
BitsIO_find(io, sub) ==
    IF BitsIO_tell(io) % 8 # 0
    THEN [io |-> [io EXCEPT !.err = "Exception"], value |-> 0]
    ELSE [io |-> io,
          value |-> bytes_find(SubSeq(io.buf, (BitsIO_tell(io) \div 8) + 1, Len(io.buf)),
                               sub) * 8]

(***************************************************************************)
(* pattern.py: values of the data tree.  Python values of different types  *)
(* are tagged records: None, an int, a str, a list of values.              *)
(***************************************************************************)
None == [t |-> "none"]
IntV(n) == [t |-> "int", i |-> n]
StrV(s) == [t |-> "str", s |-> s]
ListV(kids) == [t |-> "list", kids |-> kids]
BytesV(b) == [t |-> "bytes", b |-> b]

\* the names bound at module level in pattern.py: its imports (lines 1-7)
\* and its own classes and functions
pattern_globals ==
    {"re", "ast", "io", "Enum", "ceil", "SEEK_SET", "SEEK_CUR", "SEEK_END",
     "uint_to_bytes", "bytes_to_uint", "BitsIO", "reverse_bytes", "invert_bytes",
     "Encoding", "b16decode", "logarhythm",
     "Directive", "ModType", "Setting", "JumpType", "pattern_parse",
     "_process_repetition_capture", "ZerosError", "OnesError", "AssertionError",
     "IncompleteDataError", "MatchLabelError", "NestingError", "flatten",
     "deflatten", "get_stream_index", "get_structure_index", "Maker",
     "Extractor", "Constructor", "extract", "extract_data_structure",
     "extract_data_stream", "construct", "construct_bytes_stream"}

\* the methods of class Maker
Maker_methods ==
    {"__init__", "__call__", "__getitem__", "__setitem__", "__delitem__",
     "tell_buffer", "tell_stream", "index_structure", "index_stream", "finalize",
     "at_eof", "__bytes__", "_translate_to_original", "_translate_from_original"}

\* the methods of class Extractor, inherited ones included
Extractor_methods ==
    Maker_methods \cup
    {"_apply_settings", "_consume_bits", "_insert_data", "_insert_data_record",
     "_endianswap", "_pull", "handle_value", "handle_takeall", "handle_next",
     "handle_zeros", "handle_ones", "handle_mod", "handle_marker", "handle_modoff",
     "handle_modset", "handle_setlabel", "handle_deflabel", "handle_matchlabel",
     "handle_nestopen", "handle_nestclose", "handle_assertion", "handle_jump"}

\* the methods of class Constructor, inherited ones included
Constructor_methods ==
    Maker_methods \cup
    {"_pull", "_endianswap", "_apply_settings", "_consume_data", "_insert_bits",
     "handle_value", "handle_takeall", "handle_next", "handle_zeros", "handle_ones",
     "handle_mod", "handle_marker", "handle_modoff", "handle_modset",
     "handle_setlabel", "handle_deflabel", "handle_matchlabel", "handle_nestopen",
     "handle_nestclose", "handle_assertion", "handle_jump"}

\* 'handle_'+directive.name.lower()
method_name(directive) ==
    CASE directive = "VALUE" -> "handle_value"
      [] directive = "NEXT" -> "handle_next"
      [] directive = "ZEROS" -> "handle_zeros"
      [] directive = "ONES" -> "handle_ones"
      [] directive = "MOD" -> "handle_mod"
      [] directive = "MODOFF" -> "handle_modoff"
      [] directive = "MODSET" -> "handle_modset"
      [] directive = "SETLABEL" -> "handle_setlabel"
      [] directive = "DEFLABEL" -> "handle_deflabel"
      [] directive = "MATCHLABEL" -> "handle_matchlabel"
      [] directive = "NESTOPEN" -> "handle_nestopen"
      [] directive = "NESTCLOSE" -> "handle_nestclose"
      [] directive = "ASSERTION" -> "handle_assertion"
      [] directive = "TAKEALL" -> "handle_takeall"
      [] directive = "JUMP" -> "handle_jump"
      [] directive = "MARKERSTART" -> "handle_markerstart"
      [] directive = "MARKEREND" -> "handle_markerend"

(***************************************************************************)
(* pattern_parse.  A token matched by tok_parse is the record              *)
(*   [text, code, dot, a, b, s]: its text, its leading code, whether it    *)
(*   holds a '.', the numbers in it and the label or hex literal after it. *)
(* An instruction is the tuple pattern_parse yields, as a record.          *)
(***************************************************************************)
Tok(text, code, dot, a, b, s) ==
    [text |-> text, code |-> code, dot |-> dot, a |-> a, b |-> b, s |-> s]

Instr(tok, directive) ==
    [tok |-> tok.text, directive |-> directive, err |-> "",
     num_bits |-> 0, offset_bits |-> 0, modtype |-> "", encoding |-> "",
     setting |-> "", label |-> "", jump_type |-> "", literal |-> << >>,
     value |-> None, to_end |-> FALSE]

\* b16decode of the hex literals the blueprints of this model use
b16decode(hex_literal) ==
    CASE hex_literal = "AA" -> <<170>>
      [] hex_literal = "77" -> <<119>>
      [] OTHER -> << >>

\* the second number of a token r<m>.$, i<m>.$, p<m>.$
ToEnd == -1

\* the text of the token holds the character '$' (the '$' of markers apart)
HasDollar(tok) == tok.code \in {"B$", "C$", "r$", "i$"} \/ (tok.dot /\ tok.b = ToEnd)

\* the instruction built from one token (the branches of the while loop)
pattern_parse_instruction(tok) ==
    IF tok.dot
    THEN [Instr(tok, "MODOFF") EXCEPT
             !.offset_bits = tok.a,
             !.num_bits = IF tok.b = ToEnd THEN 0 ELSE tok.b,
             !.to_end = (tok.b = ToEnd),
             !.modtype = CASE tok.code = "r" -> "REVERSE"
                           [] tok.code = "i" -> "INVERT"
                           [] tok.code = "p" -> "PULL"]
    ELSE IF tok.code \in {"B$", "C$"}
    THEN [Instr(tok, "TAKEALL") EXCEPT
             !.encoding = IF tok.code = "B$" THEN "BYTS" ELSE "CHAR"]
    ELSE IF tok.code \in {"r$", "i$"}
    THEN [Instr(tok, "MOD") EXCEPT !.to_end = TRUE, !.modtype = "REVERSE"]
    ELSE IF tok.code \in {"u", "s", "x", "X", "b", "B", "C"}
    THEN [Instr(tok, "VALUE") EXCEPT
             !.num_bits = tok.a,
             !.encoding = CASE tok.code = "u" -> "UINT"
                            [] tok.code = "s" -> "SINT"
                            [] tok.code = "x" -> "LHEX"
                            [] tok.code = "X" -> "UHEX"
                            [] tok.code = "b" -> "BINS"
                            [] tok.code = "B" -> "BYTS"
                            [] tok.code = "C" -> "CHAR"]
    ELSE IF tok.code \in {"r", "i", "e"}
    THEN IF tok.code = "e" /\ tok.a % 8 # 0
         THEN [Instr(tok, "MOD") EXCEPT !.err = "Exception"]
         ELSE [Instr(tok, "MOD") EXCEPT
                 !.num_bits = tok.a,
                 !.modtype = CASE tok.code = "r" -> "REVERSE"
                               [] tok.code = "i" -> "INVERT"
                               [] tok.code = "e" -> "ENDIANSWAP"]
    ELSE IF tok.code \in {"{", "}"} THEN Instr(tok, "REPETITION")
    ELSE IF tok.code = "[" THEN Instr(tok, "NESTOPEN")
    ELSE IF tok.code = "]" THEN Instr(tok, "NESTCLOSE")
    ELSE IF tok.code \in {"R", "I", "E"}
    THEN [Instr(tok, "MODSET") EXCEPT
             !.modtype = CASE tok.code = "R" -> "REVERSE"
                           [] tok.code = "I" -> "INVERT"
                           [] tok.code = "E" -> "ENDIANSWAP",
             !.setting = CASE tok.s = "y" -> "TRUE"
                           [] tok.s = "n" -> "FALSE"
                           [] tok.s = "t" -> "TOGGLE"]
    ELSE IF tok.code \in {"z", "o", "n"}
    THEN [Instr(tok, CASE tok.code = "z" -> "ZEROS"
                       [] tok.code = "o" -> "ONES"
                       [] tok.code = "n" -> "NEXT") EXCEPT !.num_bits = tok.a]
    ELSE IF tok.code = "#" THEN [Instr(tok, "SETLABEL") EXCEPT !.label = tok.s]
    ELSE IF tok.code = "!#"
    THEN [Instr(tok, "DEFLABEL") EXCEPT !.label = tok.s, !.value = IntV(tok.a)]
    ELSE IF tok.code \in {"m^", "m$"}
    THEN [Instr(tok, IF tok.code = "m^" THEN "MARKERSTART" ELSE "MARKEREND")
             EXCEPT !.literal = b16decode(tok.s)]
    ELSE IF tok.code \in {"js", "jf", "jb", "je"}
    THEN [Instr(tok, "JUMP") EXCEPT
             !.num_bits = tok.a,
             !.jump_type = CASE tok.code = "js" -> "START"
                             [] tok.code = "jf" -> "FORWARD"
                             [] tok.code = "jb" -> "BACKWARD"
                             [] tok.code = "je" -> "END"]
    ELSE [Instr(tok, "") EXCEPT !.err = "Exception"]

\* len(repetition_stack) after the tokens p of a pattern: '{' pushes a
\* capture, '}' pops one
RECURSIVE repetition_depth(_)
repetition_depth(p) ==
    IF Len(p) = 0 THEN 0
    ELSE repetition_depth(SubSeq(p, 1, Len(p) - 1))
         + (CASE p[Len(p)].code = "{" -> 1
              [] p[Len(p)].code = "}" -> -1
              [] OTHER -> 0)

\* the index in items of the '}' that closes the '{' at items[1]: item i is
\* looked at with depth captures open before it
RECURSIVE capture_close(_, _, _)
capture_close(items, i, depth) ==
    IF items[i].code = "{" THEN capture_close(items, i + 1, depth + 1)
    ELSE IF items[i].code = "}"
    THEN (IF depth = 1 THEN i ELSE capture_close(items, i + 1, depth - 1))
    ELSE capture_close(items, i + 1, depth)

\* repetition_stack[0] without its count: the tokens after the '{' that
\* opened the outermost capture still open after the tokens p
repetition_capture(p) ==
    LET opened == CHOOSE k \in 1..Len(p) :
                     /\ p[k].code = "{"
                     /\ repetition_depth(SubSeq(p, 1, k - 1)) = 0
                     /\ \A j \in k..Len(p) : repetition_depth(SubSeq(p, 1, j)) > 0
    IN  SubSeq(p, opened + 1, Len(p))

\* what tok_parse (line 70) matches of the text of one token.  In the regular
\* expression '$' is the end-of-string anchor, not the character: of r4.$ the
\* alternative [usfxXbBnpjJrizoeC]\d+ matches r4 and nothing matches .$; of B$
\* nothing matches
tok_parse(tok) ==
    IF ~HasDollar(tok) THEN <<tok>>
    ELSE IF tok.dot
    THEN <<Tok(tok.code \o ToString(tok.a), tok.code, FALSE, tok.a, 0, "")>>
    ELSE << >>

\* the instructions pattern_parse yields for the text of one token; where
\* tok_parse stops matching before the end of the text the last one is the
\* exception of line 262
pattern_parse_token(tok) ==
    IF ~HasDollar(tok) THEN <<pattern_parse_instruction(tok)>>
    ELSE [i \in 1..Len(tok_parse(tok)) |-> pattern_parse_instruction(tok_parse(tok)[i])]
         \o <<[Instr(tok, "") EXCEPT !.err = "Exception"]>>

\* What _process_repetition_capture yields, as the tokens yielded once
\* followed, where forever holds, by the tokens of again over and over (the
\* while True of line 267, which no statement leaves).
Yielded(once, again, forever) == [once |-> once, again |-> again, forever |-> forever]

\* the i-th token of what is yielded
yielded_item(y, i) ==
    IF i <= Len(y.once) THEN y.once[i]
    ELSE y.again[((i - Len(y.once) - 1) % Len(y.again)) + 1]

\* once, count times over
RECURSIVE times(_, _)
times(once, count) == IF count = 0 THEN << >> ELSE once \o times(once, count - 1)

\* _process_repetition_capture on a capture of the given items and count
\* (ToEnd for '$'): an inner capture is processed where it stands, and what
\* follows a capture that never ends is never yielded
RECURSIVE process_items(_), process_repetition_capture(_, _)
process_items(items) ==
    IF Len(items) = 0 THEN Yielded(<< >>, << >>, FALSE)
    ELSE IF items[1].code = "{"
    THEN LET close == capture_close(items, 1, 0)
             inner == process_repetition_capture(SubSeq(items, 2, close - 1),
                                                 items[close].a)
             rest == process_items(SubSeq(items, close + 1, Len(items)))
         IN  IF inner.forever THEN inner
             ELSE Yielded(inner.once \o rest.once, rest.again, rest.forever)
    ELSE LET rest == process_items(SubSeq(items, 2, Len(items)))
         IN  Yielded(<<items[1]>> \o rest.once, rest.again, rest.forever)

process_repetition_capture(items, count) ==
    LET iteration == process_items(items)
    IN  IF count = 0 THEN Yielded(<< >>, << >>, FALSE)
        ELSE IF iteration.forever THEN iteration
        ELSE IF count = ToEnd THEN Yielded(<< >>, iteration.once, TRUE)
        ELSE Yielded(times(iteration.once, count), << >>, FALSE)

\* the exception pattern_parse raises at the token that follows the tokens
\* p ("" when none): the IndexError of the pop of line 212 for a '}' with no
\* capture open, and the exception of a token that does not parse
parse_error(p, tok) ==
    IF tok.code = "{" THEN ""
    ELSE IF tok.code = "}" THEN (IF repetition_depth(p) = 0 THEN "IndexError" ELSE "")
    ELSE IF repetition_depth(p) = 0 THEN ""
    ELSE LET instructions == pattern_parse_token(tok)
             failed == {i \in 1..Len(instructions) : instructions[i].err # ""}
         IN  IF failed = {} THEN "" ELSE instructions[CHOOSE i \in failed : TRUE].err

\* what pattern_parse yields at the token that follows the tokens p: nothing
\* at a '{' and inside a capture, the processed capture at the '}' of the
\* outermost capture, the token itself elsewhere
yielded(p, tok) ==
    IF tok.code = "{" THEN Yielded(<< >>, << >>, FALSE)
    ELSE IF tok.code = "}"
    THEN (IF repetition_depth(p) > 1 THEN Yielded(<< >>, << >>, FALSE)
          ELSE process_repetition_capture(repetition_capture(p), tok.a))
    ELSE IF repetition_depth(p) > 0 THEN Yielded(<< >>, << >>, FALSE)
    ELSE Yielded(<<tok>>, << >>, FALSE)

(***************************************************************************)
(* class Maker: label read and coordinate translation.  A maker is a       *)
(* record of its attributes plus err, the name of the exception raised     *)
(* ("" while none was).  A nested list under construction is the sequence  *)
(* of its open lists (stack_data, stack_record): frame i+1 is the list     *)
(* being filled as the last element of frame i.                            *)
(***************************************************************************)
Last(s) == s[Len(s)]
Front(s) == SubSeq(s, 1, Len(s) - 1)

\* a variant of Maker.__getitem__ that reads the first binding of the label
\* (index 0 in place of the -1 of line 432)
Maker_getitem_first(maker, label) == Head(maker.labels[label]).value

\* Maker.__getitem__: self.labels[label][-1][0]
Maker_getitem(maker, label) == Last(maker.labels[label]).value

\* one step of the loops of _translate_to_original / _translate_from_original
translate_step(op, pos) ==
    LET mstart == op.start + op.offset
        mend == mstart + op.num_bits
    IN  IF op.modtype = "REVERSE"
        THEN (IF mstart <= pos /\ pos <= mend
              THEN [err |-> "", pos |-> mend - (pos - mstart)]
              ELSE [err |-> "", pos |-> pos])
        ELSE IF op.modtype = "INVERT" \/ op.modtype = "ENDIANCHECK"
        THEN [err |-> "", pos |-> pos]
        ELSE [err |-> "Exception", pos |-> pos]

\* Maker._translate_from_original: the log is walked from its first entry on
RECURSIVE Maker_translate_from_original(_, _)
\* the rest of the loop after one entry gave r
translate_from_original_rest(r, mod_operations) ==
    IF r.err # "" THEN r ELSE Maker_translate_from_original(mod_operations, r.pos)

Maker_translate_from_original(mod_operations, orig_pos) ==
    IF Len(mod_operations) = 0 THEN [err |-> "", pos |-> orig_pos]
    ELSE translate_from_original_rest(translate_step(Head(mod_operations), orig_pos),
                                      Tail(mod_operations))

\* a variant of _translate_to_original that walks the log in the order of
\* _translate_from_original (without the [::-1] of line 456)
translate_to_original_forward(mod_operations, pos) ==
    Maker_translate_from_original(mod_operations, pos)

\* Maker._translate_to_original: the log is walked from its last entry back
RECURSIVE Maker_translate_to_original(_, _)
\* the rest of the loop after one entry gave r
translate_to_original_rest(r, mod_operations) ==
    IF r.err # "" THEN r ELSE Maker_translate_to_original(mod_operations, r.pos)

Maker_translate_to_original(mod_operations, pos) ==
    IF Len(mod_operations) = 0 THEN [err |-> "", pos |-> pos]
    ELSE translate_to_original_rest(translate_step(Last(mod_operations), pos),
                                    Front(mod_operations))

(***************************************************************************)
(* class Extractor                                                         *)
(***************************************************************************)
\* Extractor.__init__ followed by the first two lines of __call__
Extractor_init(byte_stream) ==
    [bit_stream |-> BitsIO_init(byte_stream),
     reverse_all |-> FALSE, invert_all |-> FALSE, endianswap_all |-> FALSE,
     last_value |-> None, last_index_stack |-> None,
     labels |-> [l \in {} |-> << >>],
     data_stream |-> << >>, flat_labels |-> << >>, flat_pattern |-> << >>,
     flat_pos |-> 0, index_stack |-> <<0>>,
     stack_data |-> << << >> >>, stack_record |-> << << >> >>,
     mod_operations |-> << >>, tok |-> "", err |-> ""]

\* a maker once an exception was raised in it
Raise(maker, e) == [maker EXCEPT !.err = e]

\* a maker after a call on self.bit_stream left the stream io
with_bit_stream(maker, io) == [maker EXCEPT !.bit_stream = io, !.err = io.err]

\* a call of self.bit_stream.reverse / invert / seek inside a maker
Maker_reverse(maker, n) ==
    IF maker.err # "" THEN maker
    ELSE with_bit_stream(maker, BitsIO_reverse(maker.bit_stream, n))

Maker_invert(maker, n) ==
    IF maker.err # "" THEN maker
    ELSE with_bit_stream(maker, BitsIO_invert(maker.bit_stream, n))

Maker_seek(maker, offset_bits, whence) ==
    IF maker.err # "" THEN maker
    ELSE with_bit_stream(maker, BitsIO_seek(maker.bit_stream, offset_bits, whence))

\* len(self.bit_stream) inside a maker: the stream afterwards
Maker_len(maker) ==
    IF maker.err # "" THEN maker
    ELSE with_bit_stream(maker, BitsIO_len_io(maker.bit_stream))

\* self.mod_operations.append((self.tok, modtype, start, offset, num_bits))
Maker_log(maker, modtype, start, offset, num_bits) ==
    IF maker.err # "" THEN maker
    ELSE [maker EXCEPT !.mod_operations =
            Append(@, [tok |-> maker.tok, modtype |-> modtype, start |-> start,
                       offset |-> offset, num_bits |-> num_bits])]

\* Maker.tell_buffer
Maker_tell_buffer(maker) == BitsIO_tell(maker.bit_stream)

\* s[-1].append(value) on a stack of open lists
AppendToTop(stack, value) ==
    [stack EXCEPT ![Len(stack)] = Append(@, value)]

\* self.index_stack[-1] += 1
BumpTop(index_stack) ==
    [index_stack EXCEPT ![Len(index_stack)] = @ + 1]

\* tuple(self.index_stack)
TupleV(index_stack) == [t |-> "tuple", idx |-> index_stack]

\* a variant of Extractor._insert_data that leaves the structure pattern alone
\* (no self.flat_pattern.append('.'))
insert_data_unflattened(ex, value) ==
    IF ex.err # "" THEN ex
    ELSE [ex EXCEPT
            !.stack_record = AppendToTop(@, value),
            !.stack_data = AppendToTop(@, value),
            !.last_value = value,
            !.data_stream = Append(@, value),
            !.flat_labels = Append(@, None),
            !.flat_pos = @ + 1,
            !.last_index_stack = TupleV(ex.index_stack),
            !.index_stack = BumpTop(@)]

\* Extractor._insert_data
Extractor_insert_data(ex, value) ==
    IF ex.err # "" THEN ex
    ELSE [ex EXCEPT
            !.stack_record = AppendToTop(@, value),
            !.stack_data = AppendToTop(@, value),
            !.last_value = value,
            !.flat_pattern = Append(@, "."),
            !.data_stream = Append(@, value),
            !.flat_labels = Append(@, None),
            !.flat_pos = @ + 1,
            !.last_index_stack = TupleV(ex.index_stack),
            !.index_stack = BumpTop(@)]

\* the for loop of Extractor._endianswap, from offset i on
RECURSIVE Extractor_endianswap_loop(_, _, _, _)
Extractor_endianswap_loop(ex, pos, i, n) ==
    IF i >= n \/ ex.err # "" THEN ex
    ELSE Extractor_endianswap_loop(
            Maker_log(Maker_seek(Maker_reverse(ex, 8), 8, SEEK_CUR),
                      "REVERSE", pos, i, 8),
            pos, i + 8, n)

\* Extractor._endianswap
Extractor_endianswap(ex, n) ==
    IF ex.err # "" THEN ex
    ELSE IF n % 8 # 0 THEN Raise(ex, "Exception")
    ELSE Maker_seek(
            Extractor_endianswap_loop(
                Maker_log(Maker_reverse(ex, n), "REVERSE", Maker_tell_buffer(ex), 0, n),
                Maker_tell_buffer(ex), 0, n),
            Maker_tell_buffer(ex), SEEK_SET)

\* Extractor._pull with n given; pos = self.tell_buffer() at its start
Extractor_pull_at(ex, m, n, pos) ==
    Maker_seek(
        Maker_log(
            Maker_reverse(
                Maker_seek(
                    Maker_log(
                        Maker_reverse(
                            Maker_log(Maker_reverse(ex, m + n), "REVERSE", pos, 0, m + n),
                            n),
                        "REVERSE", pos, 0, n),
                    n, SEEK_CUR),
                m),
            "REVERSE", pos, n, m),
        pos, SEEK_SET)

\* Extractor._pull once n is known
pull_known(ex, m, n) ==
    IF ex.err # "" THEN ex ELSE Extractor_pull_at(ex, m, n, Maker_tell_buffer(ex))

\* Extractor._pull; with n = None (ToEnd) n is what is left behind the m bits
\* and is inserted into the data
Extractor_pull(ex, m, n) ==
    IF ex.err # "" THEN ex
    ELSE pull_known(
            IF n = ToEnd
            THEN Extractor_insert_data(
                    Maker_len(ex),
                    IntV(BitsIO_len(ex.bit_stream) - (Maker_tell_buffer(ex) + m)))
            ELSE ex,
            m,
            IF n = ToEnd
            THEN BitsIO_len(ex.bit_stream) - (Maker_tell_buffer(ex) + m)
            ELSE n)

\* Extractor._pull with n = None
Extractor_pull_None(ex, m) == Extractor_pull(ex, m, ToEnd)

\* Extractor._apply_settings: if self.endianswap_all and encoding != CHAR
apply_endianswap_all(ex, num_bits, encoding) ==
    IF ex.err = "" /\ ex.endianswap_all /\ encoding # "CHAR"
    THEN Extractor_endianswap(ex, num_bits)
    ELSE ex

\* Extractor._apply_settings: if self.invert_all
apply_invert_all(ex, pos, num_bits) ==
    IF ex.err = "" /\ ex.invert_all
    THEN Maker_log(Maker_invert(ex, num_bits), "INVERT", pos, 0, num_bits)
    ELSE ex

\* Extractor._apply_settings: if self.reverse_all
apply_reverse_all(ex, pos, num_bits) ==
    IF ex.reverse_all
    THEN Maker_log(Maker_reverse(ex, num_bits), "REVERSE", pos, 0, num_bits)
    ELSE ex

\* Extractor._apply_settings
Extractor_apply_settings(ex, num_bits, encoding) ==
    IF ex.err # "" THEN ex
    ELSE apply_endianswap_all(
            apply_invert_all(apply_reverse_all(ex, Maker_tell_buffer(ex), num_bits),
                             Maker_tell_buffer(ex), num_bits),
            num_bits, encoding)

\* a str given by its characters
CharsV(chars) == [t |-> "str", chars |-> chars]

\* the digit characters of %x and 'b' (upper = FALSE) and of %X (upper = TRUE),
\* the digit d at place d + 1
DigitChars(upper) ==
    IF upper
    THEN <<"0", "1", "2", "3", "4", "5", "6", "7", "8", "9", "A", "B", "C", "D", "E", "F">>
    ELSE <<"0", "1", "2", "3", "4", "5", "6", "7", "8", "9", "a", "b", "c", "d", "e", "f">>

\* the digits of a non-negative int in a base, most significant first
RECURSIVE format_digits(_, _, _)
format_digits(uint_value, base, upper) ==
    IF uint_value < base THEN <<DigitChars(upper)[uint_value + 1]>>
    ELSE Append(format_digits(uint_value \div base, base, upper),
                DigitChars(upper)[(uint_value % base) + 1])

\* the 0<width> of a format: zeros on the left up to width characters
RECURSIVE zero_pad(_, _)
zero_pad(chars, width) ==
    IF Len(chars) >= width THEN chars ELSE zero_pad(<<"0">> \o chars, width)

\* int(ceil(num_bits/4.0))
Ceil4(num_bits) == -((-num_bits) \div 4)

\* bit_utils.uint_decode for the encodings UINT, SINT, LHEX, UHEX and BINS
uint_decode(uint_value, num_bits, encoding) ==
    IF encoding = "SINT" /\ num_bits >= 1 /\ uint_value >= Pow2(num_bits - 1)
    THEN IntV(uint_value - Pow2(num_bits))
    ELSE IF encoding = "LHEX"
    THEN CharsV(zero_pad(format_digits(uint_value, 16, FALSE), Ceil4(num_bits)))
    ELSE IF encoding = "UHEX"
    THEN CharsV(zero_pad(format_digits(uint_value, 16, TRUE), Ceil4(num_bits)))
    ELSE IF encoding = "BINS"
    THEN CharsV(zero_pad(format_digits(uint_value, 2, FALSE), num_bits))
    ELSE IntV(uint_value)

\* what pdb.set_trace() (line 549) can lead to: the operator continues, or
\* the debugger is left (no terminal, or quit)
DebuggerOutcomes == {"continue", "quit"}

\* Extractor._consume_bits after uint_value,num_extracted =
\* self.bit_stream.read(num_bits), which gave r
consume_read(ex, r, num_bits, encoding, dbg) ==
    IF r.io.err # "" THEN [ex |-> with_bit_stream(ex, r.io), value |-> None]
    ELSE IF r.num_bits # num_bits
    THEN [ex |-> Raise(with_bit_stream(ex, r.io),
                       IF dbg = "quit" THEN "BdbQuit" ELSE "IncompleteDataError"),
          value |-> None]
    ELSE IF "uint_decode" \notin pattern_globals
    THEN [ex |-> Raise(with_bit_stream(ex, r.io), "NameError"), value |-> None]
    ELSE [ex |-> with_bit_stream(ex, r.io),
          value |-> uint_decode(r.value, num_bits, encoding)]

\* Extractor._consume_bits after self._apply_settings
consume_settled(ex, num_bits, encoding, dbg) ==
    IF ex.err # "" THEN [ex |-> ex, value |-> None]
    ELSE consume_read(ex, BitsIO_read(ex.bit_stream, num_bits), num_bits, encoding, dbg)

\* Extractor._consume_bits: [ex |-> the extractor afterwards, value]
Extractor_consume_bits(ex, num_bits, encoding, dbg) ==
    consume_settled(Extractor_apply_settings(ex, num_bits, encoding),
                    num_bits, encoding, dbg)

\* Extractor.handle_value: self._insert_data(value) with what _consume_bits gave
insert_consumed(c) == Extractor_insert_data(c.ex, c.value)

\* Extractor.handle_zeros with what _consume_bits gave
zeros_consumed(c) ==
    IF c.ex.err # "" THEN c.ex
    ELSE IF c.value # IntV(0) THEN Raise(c.ex, "ZerosError")
    ELSE c.ex

\* Extractor.handle_ones with what _consume_bits gave
ones_consumed(c, num_bits) ==
    IF c.ex.err # "" THEN c.ex
    ELSE IF c.value # IntV(Pow2(num_bits) - 1) THEN Raise(c.ex, "OnesError")
    ELSE c.ex

\* the three handlers that begin with value = self._consume_bits(num_bits,
\* encoding): handle_value inserts the value, handle_zeros and handle_ones
\* compare it
handle_consumed(c, directive, num_bits) ==
    CASE directive = "VALUE" -> insert_consumed(c)
      [] directive = "ZEROS" -> zeros_consumed(c)
      [] directive = "ONES" -> ones_consumed(c, num_bits)

\* Extractor.handle_value, Extractor.handle_zeros, Extractor.handle_ones
Extractor_handle_bits(ex, directive, num_bits, encoding, dbg) ==
    handle_consumed(Extractor_consume_bits(ex, num_bits, encoding, dbg),
                    directive, num_bits)


\* BitsIO.read_bytes: its second statement, self.byte_source.seek(
\* self.seek_bit_pos//8), reads an attribute no BitsIO has (the attribute is
\* bit_seek_pos), whatever the stream holds
BitsIO_read_bytes(io) == [io EXCEPT !.err = "AttributeError"]

\* self.bit_stream.read_bytes() inside a maker
Maker_read_bytes(maker) ==
    IF maker.err # "" THEN maker
    ELSE with_bit_stream(maker, BitsIO_read_bytes(maker.bit_stream))

\* Extractor.handle_takeall
Extractor_handle_takeall(ex, encoding) ==
    IF Maker_tell_buffer(ex) % 8 # 0 THEN Raise(ex, "Exception")
    ELSE Maker_read_bytes(
            Extractor_apply_settings(Maker_len(ex),
                                     BitsIO_len(ex.bit_stream) - Maker_tell_buffer(ex),
                                     encoding))

\* Extractor.handle_next
Extractor_handle_next(ex, num_bits) == Maker_seek(ex, num_bits, SEEK_CUR)

\* bit_stream.reverse(n) and bit_stream.invert(n): n = None takes what is
\* left behind the cursor
span_bits(ex, n) ==
    IF n = ToEnd THEN BitsIO_len(ex.bit_stream) - Maker_tell_buffer(ex) ELSE n

\* Extractor.handle_mod; with num_bits = None (ToEnd) reverse and invert take
\* what is left behind the cursor, None is logged as the size, and
\* _endianswap computes None % 8
Extractor_handle_mod(ex, num_bits, modtype) ==
    LET pos == Maker_tell_buffer(ex)
    IN  IF modtype = "REVERSE"
        THEN Maker_log(Maker_reverse(ex, span_bits(ex, num_bits)),
                       "REVERSE", pos, 0, num_bits)
        ELSE IF modtype = "INVERT"
        THEN Maker_log(Maker_invert(ex, span_bits(ex, num_bits)),
                       "INVERT", pos, 0, num_bits)
        ELSE IF modtype = "ENDIANSWAP"
        THEN IF num_bits = ToEnd THEN Raise(ex, "TypeError")
             ELSE Extractor_endianswap(ex, num_bits)
        ELSE Raise(ex, "Exception")

\* Extractor.handle_modoff; with num_bits = None (ToEnd) num_bits is what is
\* left behind the offset, and is inserted into the data before the operation
Extractor_handle_modoff(ex, offset_bits, num_bits, modtype) ==
    LET pos == Maker_tell_buffer(ex)
        n  == IF num_bits = ToEnd
              THEN BitsIO_len(ex.bit_stream) - (pos + offset_bits)
              ELSE num_bits
        e0 == IF num_bits = ToEnd
              THEN Extractor_insert_data(Maker_len(ex), IntV(n))
              ELSE ex
        e1 == IF modtype = "REVERSE"
              THEN Maker_log(Maker_reverse(Maker_seek(e0, offset_bits, SEEK_CUR), n),
                             "REVERSE", pos, offset_bits, n)
              ELSE IF modtype = "INVERT"
              THEN Maker_log(Maker_invert(Maker_seek(e0, offset_bits, SEEK_CUR), n),
                             "INVERT", pos, offset_bits, n)
              ELSE IF modtype = "PULL"
              THEN Extractor_pull(ex, offset_bits, num_bits)
              ELSE Raise(ex, "Exception")
    IN  Maker_seek(e1, pos, SEEK_SET)

\* the new value of one setting in handle_modset
apply_setting(current, setting) ==
    CASE setting = "TRUE" -> TRUE
      [] setting = "FALSE" -> FALSE
      [] setting = "TOGGLE" -> ~current

\* Extractor.handle_modset and Constructor.handle_modset
Maker_handle_modset(maker, modtype, setting) ==
    IF setting \notin {"TRUE", "FALSE", "TOGGLE"} THEN Raise(maker, "Exception")
    ELSE IF modtype = "REVERSE"
    THEN [maker EXCEPT !.reverse_all = apply_setting(@, setting)]
    ELSE IF modtype = "INVERT"
    THEN [maker EXCEPT !.invert_all = apply_setting(@, setting)]
    ELSE IF modtype = "ENDIANSWAP"
    THEN [maker EXCEPT !.endianswap_all = apply_setting(@, setting)]
    ELSE Raise(maker, "Exception")

\* if not label in self.labels: self.labels[label] = []; then
\* self.labels[label].append(binding)
bind_label(labels, label, binding) ==
    [l \in DOMAIN labels \cup {label} |->
        IF l = label
        THEN Append(IF label \in DOMAIN labels THEN labels[label] ELSE << >>, binding)
        ELSE labels[l]]

\* Extractor.handle_setlabel: the binding is appended before
\* self.flat_labels[-1] = label can raise IndexError
Extractor_handle_setlabel(ex, label) ==
    LET e1 == [ex EXCEPT !.labels =
                 bind_label(@, label, [value |-> ex.last_value,
                                       index_stack |-> ex.last_index_stack,
                                       pos |-> ex.flat_pos - 1])]
    IN  IF Len(ex.flat_labels) = 0 THEN Raise(e1, "IndexError")
        ELSE [e1 EXCEPT !.flat_labels[Len(ex.flat_labels)] = StrV(label)]

\* Extractor.handle_deflabel: the binding appended holds self.last_value, the
\* argument value is not used
Extractor_handle_deflabel(ex, label, value) ==
    [ex EXCEPT !.labels =
        bind_label(@, label, [value |-> ex.last_value, index_stack |-> None,
                              pos |-> None])]

\* Extractor.handle_nestopen
Extractor_handle_nestopen(ex) ==
    [ex EXCEPT
        !.stack_record = Append(@, << >>),
        !.stack_data = Append(@, << >>),
        !.flat_pattern = Append(@, "["),
        !.index_stack = Append(@, 0)]

\* stack.pop(-1): the closed list is the last element of the list below it
PopFrame(stack) ==
    AppendToTop(Front(stack), ListV(Last(stack)))

\* Extractor.handle_nestclose
Extractor_handle_nestclose(ex) ==
    IF Len(ex.stack_data) = 1 THEN Raise(ex, "NestingError")
    ELSE [ex EXCEPT
            !.last_value = ListV(Last(ex.stack_record)),
            !.stack_record = IF Len(ex.stack_record) = 1
                             THEN << <<ListV(Last(ex.stack_record))>> >>
                             ELSE PopFrame(@),
            !.stack_data = PopFrame(@),
            !.flat_pattern = Append(@, "]"),
            !.index_stack = BumpTop(Front(@))]

\* Extractor.handle_jump from offset = self._translate_from_original(...) - pos
\* on; t is what the translation gave
jump_offset(ex, t, pos) ==
    IF t.err # "" THEN Raise(ex, t.err)
    ELSE IF t.pos - pos < 0 THEN Raise(ex, "Exception")
    ELSE IF t.pos - pos > 0 THEN Extractor_pull_None(ex, t.pos - pos)
    ELSE ex

\* Extractor.handle_jump after pos = self.tell_buffer() and
\* L = len(self.bit_stream); the branch of FORWARD and BACKWARD reads
\* target_orig (line 780) before it is bound
jump_target(ex, num_bits, jump_type, pos, L) ==
    IF ex.err # "" THEN ex
    ELSE IF jump_type \in {"FORWARD", "BACKWARD"} THEN Raise(ex, "UnboundLocalError")
    ELSE jump_offset(ex,
                     Maker_translate_from_original(
                        ex.mod_operations,
                        IF jump_type = "START" THEN num_bits ELSE L - num_bits),
                     pos)

\* Extractor.handle_jump
Extractor_handle_jump(ex, num_bits, jump_type) ==
    jump_target(Maker_len(ex), num_bits, jump_type, Maker_tell_buffer(ex),
                BitsIO_len(ex.bit_stream))

\* b''.join(items) on a list of int: join wants bytes-like items and raises
\* TypeError at the first int
join_ints(items) ==
    IF Len(items) = 0 THEN [err |-> "", bytes |-> << >>]
    ELSE [err |-> "TypeError", bytes |-> << >>]

\* reverse_bytes and invert_bytes of bit_utils: [err, bytes]
reverse_bytes(b) ==
    join_ints([i \in 1..Len(b) |-> reverse_byte_table(b[Len(b) + 1 - i])])
invert_bytes(b) ==
    join_ints([i \in 1..Len(b) |-> invert_byte_table(b[i])])

\* Extractor.handle_marker: bytes_literal as the settings make it, [err, bytes]
marker_literal(ex, bytes_literal) ==
    LET inverted == IF ex.invert_all THEN invert_bytes(bytes_literal)
                    ELSE [err |-> "", bytes |-> bytes_literal]
        reversed == IF inverted.err = "" /\ ex.reverse_all
                    THEN reverse_bytes(inverted.bytes)
                    ELSE inverted
    IN  IF reversed.err = "" /\ ex.endianswap_all
        THEN [err |-> "",
              bytes |-> [i \in 1..Len(reversed.bytes) |->
                            reversed.bytes[Len(reversed.bytes) + 1 - i]]]
        ELSE reversed

\* Extractor.handle_marker: self.handle_nestclose() after self._pull(m, None)
marker_nestclose(ex) == IF ex.err # "" THEN ex ELSE Extractor_handle_nestclose(ex)

\* Extractor.handle_marker: the comparison of what _consume_bits gave with
\* the literal
marker_consumed(c, bytes_literal) ==
    IF c.ex.err # "" THEN c.ex
    ELSE IF c.value # BytesV(bytes_literal) THEN Raise(c.ex, "Exception")
    ELSE c.ex

\* Extractor.handle_marker from m = self.bit_stream.find(bytes_literal) on; f
\* is what find gave: m is inserted into a new list whether the literal was
\* found or not (find gives -8 when it was not)
marker_found(ex, f, bytes_literal, dbg) ==
    IF f.io.err # "" THEN Raise(ex, f.io.err)
    ELSE marker_consumed(
            Extractor_consume_bits(
                marker_nestclose(
                    Extractor_pull(
                        Extractor_insert_data(Extractor_handle_nestopen(ex),
                                              IntV(f.value)),
                        f.value, ToEnd)),
                8 * Len(bytes_literal), "BYTS", dbg),
            bytes_literal)

\* Extractor.handle_marker.  No blueprint reaches it (see Extractor_call_step:
\* there is no handle_markerstart / handle_markerend); it is called on the
\* extractor
Extractor_handle_marker(ex, bytes_literal, dbg) ==
    IF Maker_tell_buffer(ex) % 8 # 0 THEN Raise(ex, "Exception")
    ELSE IF marker_literal(ex, bytes_literal).err # ""
    THEN Raise(ex, marker_literal(ex, bytes_literal).err)
    ELSE marker_found(ex,
                      BitsIO_find(ex.bit_stream, marker_literal(ex, bytes_literal).bytes),
                      bytes_literal, dbg)

\* one iteration of the loop of Extractor.__call__ on an instruction that
\* pattern_parse yielded: self.tok is set, the method is looked up by name
\* and called
Extractor_call_instruction(ex, instruction, dbg) ==
    IF instruction.err # "" THEN Raise(ex, instruction.err)
    ELSE IF method_name(instruction.directive) \notin Extractor_methods
    THEN Raise([ex EXCEPT !.tok = instruction.tok], "AttributeError")
    ELSE CASE instruction.directive \in {"VALUE", "ZEROS", "ONES"} ->
                Extractor_handle_bits([ex EXCEPT !.tok = instruction.tok],
                                      instruction.directive, instruction.num_bits,
                                      IF instruction.directive = "VALUE"
                                      THEN instruction.encoding ELSE "UINT", dbg)
           [] instruction.directive = "TAKEALL" ->
                Extractor_handle_takeall([ex EXCEPT !.tok = instruction.tok],
                                         instruction.encoding)
           [] instruction.directive = "NEXT" ->
                Extractor_handle_next([ex EXCEPT !.tok = instruction.tok],
                                      instruction.num_bits)
           [] instruction.directive = "MOD" ->
                Extractor_handle_mod([ex EXCEPT !.tok = instruction.tok],
                                     IF instruction.to_end THEN ToEnd
                                     ELSE instruction.num_bits,
                                     instruction.modtype)
           [] instruction.directive = "MODOFF" ->
                Extractor_handle_modoff([ex EXCEPT !.tok = instruction.tok],
                                        instruction.offset_bits,
                                        IF instruction.to_end THEN ToEnd
                                        ELSE instruction.num_bits,
                                        instruction.modtype)
           [] instruction.directive = "MODSET" ->
                Maker_handle_modset([ex EXCEPT !.tok = instruction.tok],
                                    instruction.modtype, instruction.setting)
           [] instruction.directive = "SETLABEL" ->
                Extractor_handle_setlabel([ex EXCEPT !.tok = instruction.tok],
                                          instruction.label)
           [] instruction.directive = "DEFLABEL" ->
                Extractor_handle_deflabel([ex EXCEPT !.tok = instruction.tok],
                                          instruction.label, instruction.value)
           [] instruction.directive = "NESTOPEN" ->
                Extractor_handle_nestopen([ex EXCEPT !.tok = instruction.tok])
           [] instruction.directive = "NESTCLOSE" ->
                Extractor_handle_nestclose([ex EXCEPT !.tok = instruction.tok])
           [] instruction.directive = "JUMP" ->
                Extractor_handle_jump([ex EXCEPT !.tok = instruction.tok],
                                      instruction.num_bits, instruction.jump_type)

\* the loop of Extractor.__call__ over the instructions of one token
RECURSIVE Extractor_call_instructions(_, _, _)
Extractor_call_instructions(ex, instructions, dbg) ==
    IF Len(instructions) = 0 \/ ex.err # "" THEN ex
    ELSE Extractor_call_instructions(
            Extractor_call_instruction(ex, Head(instructions), dbg),
            Tail(instructions), dbg)

\* the loop of Extractor.__call__ on the next token of the blueprint
Extractor_call_step(ex, tok, dbg) ==
    Extractor_call_instructions(ex, pattern_parse_token(tok), dbg)

\* the loop of Extractor.__call__ over the instructions y that pattern_parse
\* yields at one token, from the i-th on, up to the first exception
RECURSIVE Extractor_call_yielded(_, _, _, _)
Extractor_call_yielded(ex, y, i, dbg) ==
    IF ex.err # "" THEN ex
    ELSE IF i > Len(y.once) /\ ~y.forever THEN ex
    ELSE IF i > Len(y.once) /\ Len(y.again) = 0 THEN Raise(ex, "never returns")
    ELSE Extractor_call_yielded(Extractor_call_step(ex, yielded_item(y, i), dbg),
                                y, i + 1, dbg)

\* the loop of Extractor.__call__ on the token that follows the tokens p of
\* the pattern
Extractor_call_next(ex, p, tok, dbg) ==
    IF parse_error(p, tok) # "" THEN Raise(ex, parse_error(p, tok))
    ELSE Extractor_call_yielded(ex, yielded(p, tok), 1, dbg)

\* Extractor.finalize
Extractor_finalize(ex) ==
    IF Len(ex.stack_data) > 1 THEN Raise(ex, "NestingError")
    ELSE IF Len(ex.stack_data) < 1 THEN Raise(ex, "NestingError")
    ELSE ex

\* maker.data_structure: the outermost list with every open list inside it
RECURSIVE close_frames(_)
close_frames(stack) ==
    IF Len(stack) = 1 THEN stack[1] ELSE close_frames(PopFrame(stack))

Maker_data_structure(ex) == ListV(close_frames(ex.stack_data))

\* Extractor.__call__ on the instructions of a pattern: the loop stops at the
\* first exception
RECURSIVE Extractor_call_from(_, _, _, _)
Extractor_call_from(ex, pattern, i, dbg) ==
    IF i > Len(pattern) \/ ex.err # "" THEN ex
    ELSE Extractor_call_from(
            Extractor_call_next(ex, SubSeq(pattern, 1, i - 1), pattern[i], dbg),
            pattern, i + 1, dbg)

\* Extractor.__call__: self.data_record and self.stack_record are bound anew,
\* then the loop runs
Extractor_call(ex, pattern, dbg) ==
    Extractor_call_from([ex EXCEPT !.stack_record = << << >> >>], pattern, 1, dbg)

\* extract: maker.finalize() unless the call raised
finalize_extractor(maker) ==
    IF maker.err # "" THEN maker ELSE Extractor_finalize(maker)

\* extract(blueprint, byte_stream): the maker returned, or the maker in
\* which the exception was raised
extract(blueprint, byte_stream, dbg) ==
    finalize_extractor(Extractor_call(Extractor_init(byte_stream), blueprint, dbg))

\* extract_data_structure: return maker.data_structure
extracted_data_structure(maker) ==
    [err |-> maker.err, data_structure |-> Maker_data_structure(maker)]

\* extract_data_structure(blueprint, byte_stream): [err, data_structure]
extract_data_structure(blueprint, byte_stream, dbg) ==
    extracted_data_structure(extract(blueprint, byte_stream, dbg))

(***************************************************************************)
(* flatten and class Constructor                                           *)
(***************************************************************************)
\* the traversal of flatten over the items of one list:
\* [data_stream, structure_pattern] without the list's own brackets
RECURSIVE flatten_items(_)
flatten_items(items) ==
    IF Len(items) = 0 THEN [data_stream |-> << >>, structure_pattern |-> << >>]
    ELSE LET item == Head(items)
             rest == flatten_items(Tail(items))
         IN  IF item.t = "list"
             THEN LET sub == flatten_items(item.kids)
                  IN  [data_stream |-> sub.data_stream \o rest.data_stream,
                       structure_pattern |->
                          <<"[">> \o sub.structure_pattern \o <<"]">>
                          \o rest.structure_pattern]
             ELSE [data_stream |-> <<item>> \o rest.data_stream,
                   structure_pattern |-> <<".">> \o rest.structure_pattern]

\* flatten(data_structure): the trailing ']' of the outermost list is removed
flatten(data_structure) == flatten_items(data_structure.kids)

\* a variant of the loop body of deflatten in which ']' leaves the stack alone
\* (no stack.pop(-1))
deflatten_token_nopop(st, token, data_stream) ==
    IF st.err # "" THEN st
    ELSE IF Len(st.stack) = 0 THEN [st EXCEPT !.err = "IndexError"]
    ELSE IF token = "[" THEN [st EXCEPT !.stack = Append(@, << >>)]
    ELSE IF token = "]" THEN st
    ELSE IF token = "."
    THEN (IF st.pos >= Len(data_stream) THEN [st EXCEPT !.err = "IndexError"]
          ELSE [st EXCEPT !.stack = AppendToTop(@, data_stream[st.pos + 1]),
                          !.pos = @ + 1])
    ELSE st

\* the loop body of deflatten, on st = [err, stack, root, pos]: stack holds
\* the open lists, root the outermost list once ']' has popped it
deflatten_token(st, token, data_stream) ==
    IF st.err # "" THEN st
    ELSE IF Len(st.stack) = 0 THEN [st EXCEPT !.err = "IndexError"]
    ELSE IF token = "[" THEN [st EXCEPT !.stack = Append(@, << >>)]
    ELSE IF token = "]"
    THEN (IF Len(st.stack) = 1 THEN [st EXCEPT !.root = st.stack[1], !.stack = << >>]
          ELSE [st EXCEPT !.stack = PopFrame(@)])
    ELSE IF token = "."
    THEN (IF st.pos >= Len(data_stream) THEN [st EXCEPT !.err = "IndexError"]
          ELSE [st EXCEPT !.stack = AppendToTop(@, data_stream[st.pos + 1]),
                          !.pos = @ + 1])
    ELSE st

\* the for loop of deflatten over the tokens of the structure pattern
RECURSIVE deflatten_loop(_, _, _)
deflatten_loop(st, structure_pattern, data_stream) ==
    IF Len(structure_pattern) = 0 THEN st
    ELSE deflatten_loop(deflatten_token(st, Head(structure_pattern), data_stream),
                        Tail(structure_pattern), data_stream)

\* return data_structure
deflatten_result(st) ==
    IF st.err # "" THEN [err |-> st.err, data_structure |-> None]
    ELSE [err |-> "",
          data_structure |-> ListV(IF Len(st.stack) = 0 THEN st.root
                                   ELSE close_frames(st.stack))]

\* deflatten(structure_pattern, data_stream): [err, data_structure]
deflatten(structure_pattern, data_stream) ==
    deflatten_result(deflatten_loop([err |-> "", stack |-> << << >> >>, root |-> << >>,
                                     pos |-> 0],
                                    structure_pattern, data_stream))

\* the value of a digit character in a base
digit_value(char, base) ==
    CHOOSE d \in 0..(base - 1) : DigitChars(FALSE)[d + 1] = char \/ DigitChars(TRUE)[d + 1] = char

\* int(value, base) on a str of digits of the base: acc is the value of the
\* characters already read
RECURSIVE int_parse(_, _, _)
int_parse(chars, base, acc) ==
    IF chars = << >> THEN acc
    ELSE int_parse(Tail(chars), base, acc * base + digit_value(Head(chars), base))

\* a uint_encode that leaves a negative SINT value as it is
uint_encode_unsigned(value, num_bits, encoding) ==
    IF encoding \in {"LHEX", "UHEX"} THEN int_parse(value.chars, 16, 0)
    ELSE IF encoding = "BINS" THEN int_parse(value.chars, 2, 0)
    ELSE value.i

\* bit_utils.uint_encode for the encodings UINT, SINT, LHEX, UHEX and BINS
uint_encode(value, num_bits, encoding) ==
    IF encoding \in {"LHEX", "UHEX"} THEN int_parse(value.chars, 16, 0)
    ELSE IF encoding = "BINS" THEN int_parse(value.chars, 2, 0)
    ELSE IF encoding = "SINT" /\ value.i < 0 THEN value.i + Pow2(num_bits)
    ELSE value.i

\* the attributes a Constructor has after __init__ and __call__
Constructor_attributes ==
    {"data_structure", "data_stream", "flat_pattern", "flat_labels", "flat_pos",
     "index_stack", "reverse_all", "invert_all", "endianswap_all", "last_value",
     "last_index_stack", "byte_stream", "bit_stream", "labels", "mod_operations",
     "logger", "data_record", "stack", "tok"}

\* Constructor.__init__ followed by the first two lines of __call__
Constructor_init(data_structure) ==
    LET f == flatten(data_structure)
    IN  [data_structure |-> data_structure,
         data_stream |-> f.data_stream, flat_pattern |-> f.structure_pattern,
         flat_labels |-> [i \in 1..Len(f.data_stream) |-> None],
         flat_pos |-> 0, index_stack |-> <<0>>,
         reverse_all |-> FALSE, invert_all |-> FALSE, endianswap_all |-> FALSE,
         last_value |-> None, last_index_stack |-> None,
         bit_stream |-> BitsIO_init(<< >>),
         labels |-> [l \in {} |-> << >>],
         mod_operations |-> << >>, stack |-> << << >> >>, tok |-> "", err |-> ""]

\* a call of self.bit_stream.write inside a maker
Maker_write(maker, value, n) ==
    IF maker.err # "" THEN maker
    ELSE with_bit_stream(maker, BitsIO_write(maker.bit_stream, value, n))

\* Constructor._pull with n given
Constructor_pull(con, m, n) ==
    LET pos == Maker_tell_buffer(con)
    IN  Maker_log(Maker_log(Maker_log(con, "REVERSE", pos, 0, m + n),
                            "REVERSE", pos, 0, n),
                  "REVERSE", pos, n, m)

\* the for loop of Constructor._endianswap, from offset i on
RECURSIVE Constructor_endianswap_loop(_, _, _, _)
Constructor_endianswap_loop(con, pos, i, n) ==
    IF i >= n THEN con
    ELSE Constructor_endianswap_loop(Maker_log(con, "REVERSE", pos, i, 8), pos, i + 8, n)

\* Constructor._endianswap: pos = self.tell() comes first
Constructor_endianswap(con, n) ==
    IF con.err # "" THEN con
    ELSE IF "tell" \notin Constructor_methods THEN Raise(con, "AttributeError")
    ELSE Maker_log(
            Constructor_endianswap_loop(
                Maker_log(con, "REVERSE", Maker_tell_buffer(con), 0, n),
                Maker_tell_buffer(con), 0, n),
            "ENDIANCHECK", Maker_tell_buffer(con), 0, n)

\* Constructor._apply_settings: if self.endianswap_all and encoding != CHAR
construct_endianswap_all(con, num_bits, encoding) ==
    IF con.endianswap_all /\ encoding # "CHAR"
    THEN Constructor_endianswap(con, num_bits)
    ELSE con

\* Constructor._apply_settings: if self.invert_all
construct_invert_all(con, pos, num_bits) ==
    IF con.invert_all THEN Maker_log(con, "INVERT", pos, 0, num_bits) ELSE con

\* Constructor._apply_settings: if self.reverse_all
construct_reverse_all(con, pos, num_bits) ==
    IF con.reverse_all THEN Maker_log(con, "REVERSE", pos, 0, num_bits) ELSE con

\* Constructor._apply_settings
Constructor_apply_settings(con, num_bits, encoding) ==
    IF con.err # "" THEN con
    ELSE construct_endianswap_all(
            construct_invert_all(
                construct_reverse_all(con, Maker_tell_buffer(con), num_bits),
                Maker_tell_buffer(con), num_bits),
            num_bits, encoding)

\* Constructor._consume_data after value = self.data_stream[self.flat_pos]
consume_value(con, value, num_bits, encoding) ==
    IF "uint_encode" \notin pattern_globals
    THEN [con |-> Raise([con EXCEPT !.flat_pos = @ + 1,
                                    !.stack = AppendToTop(@, value)],
                        "NameError"),
          uint_value |-> 0]
    ELSE [con |-> [con EXCEPT !.flat_pos = @ + 1,
                              !.stack = AppendToTop(@, value),
                              !.last_value = value,
                              !.last_index_stack = TupleV(con.index_stack),
                              !.index_stack = BumpTop(@)],
          uint_value |-> uint_encode(value, num_bits, encoding)]

\* Constructor._consume_data: [con |-> the constructor afterwards, uint_value]
Constructor_consume_data(con, num_bits, encoding) ==
    IF con.err # "" THEN [con |-> con, uint_value |-> 0]
    ELSE IF con.flat_pos >= Len(con.data_stream)
    THEN [con |-> Raise(con, "IndexError"), uint_value |-> 0]
    ELSE consume_value(con, con.data_stream[con.flat_pos + 1], num_bits, encoding)

\* Constructor._insert_bits
Constructor_insert_bits(con, uint_value, num_bits, encoding) ==
    Maker_write(Constructor_apply_settings(con, num_bits, encoding), uint_value, num_bits)

\* Constructor.handle_value: self._insert_bits with what _consume_data gave
insert_consumed_data(c, num_bits, encoding) ==
    Constructor_insert_bits(c.con, c.uint_value, num_bits, encoding)

\* Constructor.handle_value
Constructor_handle_value(con, num_bits, encoding) ==
    insert_consumed_data(Constructor_consume_data(con, num_bits, encoding),
                         num_bits, encoding)

\* Constructor.handle_next
Constructor_handle_next(con, num_bits) == Maker_write(con, 0, num_bits)

\* Constructor.handle_zeros
Constructor_handle_zeros(con, num_bits) == Constructor_insert_bits(con, 0, num_bits, "UINT")

\* Constructor.handle_ones
Constructor_handle_ones(con, num_bits) ==
    Constructor_insert_bits(con, Pow2(num_bits) - 1, num_bits, "UINT")

\* Constructor.handle_mod: the else branch names mod_type, which is neither
\* a local of the method nor a global of the module
Constructor_handle_mod(con, num_bits, modtype) ==
    IF modtype = "ENDIANSWAP" THEN Constructor_endianswap(con, num_bits)
    ELSE IF "mod_type" \notin pattern_globals THEN Raise(con, "NameError")
    ELSE Maker_log(con, modtype, Maker_tell_buffer(con), 0, num_bits)

\* Constructor.handle_modoff with num_bits given
Constructor_handle_modoff(con, offset_bits, num_bits, modtype) ==
    IF modtype = "PULL" THEN Constructor_pull(con, offset_bits, num_bits)
    ELSE IF "mod_type" \notin pattern_globals THEN Raise(con, "NameError")
    ELSE Maker_log(con, modtype, Maker_tell_buffer(con), offset_bits, num_bits)

\* Constructor.handle_modoff with num_bits = None, once _consume_data gave it
modoff_consumed(c, offset_bits, modtype) ==
    IF c.con.err # "" THEN c.con
    ELSE Constructor_handle_modoff(c.con, offset_bits, c.uint_value, modtype)

\* Constructor.handle_modoff with num_bits = None: num_bits is taken from the
\* data stream
Constructor_handle_modoff_None(con, offset_bits, modtype) ==
    modoff_consumed(Constructor_consume_data(con, 0, "UINT"), offset_bits, modtype)

\* Constructor.handle_setlabel
Constructor_handle_setlabel(con, label) ==
    [con EXCEPT !.labels =
        bind_label(@, label, [value |-> con.last_value,
                              index_stack |-> con.last_index_stack,
                              pos |-> con.flat_pos - 1])]

\* Constructor.handle_deflabel: self.labels[label].append((value,None,None)),
\* KeyError when the label has no binding yet
Constructor_handle_deflabel(con, label, value) ==
    IF label \notin DOMAIN con.labels THEN Raise(con, "KeyError")
    ELSE [con EXCEPT !.labels[label] =
             Append(@, [value |-> value, index_stack |-> None, pos |-> None])]

\* Constructor.handle_nestopen
Constructor_handle_nestopen(con) ==
    [con EXCEPT !.stack = Append(@, << >>), !.index_stack = Append(@, 0)]

\* Constructor.handle_nestclose: self.index_stack[-1] += 1 raises IndexError
\* once the pop has emptied index_stack
Constructor_handle_nestclose(con) ==
    LET c1 == [con EXCEPT
                 !.last_value = ListV(Last(con.stack)),
                 !.stack = IF Len(con.stack) = 1
                           THEN << <<ListV(Last(con.stack))>> >>
                           ELSE PopFrame(@),
                 !.index_stack = Front(@)]
    IN  IF Len(c1.index_stack) = 0 THEN Raise(c1, "IndexError")
        ELSE [c1 EXCEPT !.index_stack = BumpTop(@)]

\* Constructor._pull with n = None, once _consume_data gave n
pull_consumed(c, m) ==
    IF c.con.err # "" THEN c.con ELSE Constructor_pull(c.con, m, c.uint_value)

\* Constructor._pull with n = None: n is taken from the data stream
Constructor_pull_None(con, m) ==
    pull_consumed(Constructor_consume_data(con, 0, "UINT"), m)

\* Constructor.handle_jump from offset = ... on; t is what the translation gave
construct_jump_offset(con, t, pos) ==
    IF t.err # "" THEN Raise(con, t.err)
    ELSE IF t.pos - pos < 0 THEN Raise(con, "Exception")
    ELSE IF t.pos - pos > 0 THEN Constructor_pull_None(con, t.pos - pos)
    ELSE con

\* Constructor.handle_jump after pos and L are known
construct_jump_target(con, num_bits, jump_type, pos, L) ==
    IF con.err # "" THEN con
    ELSE IF jump_type \in {"FORWARD", "BACKWARD"} THEN Raise(con, "UnboundLocalError")
    ELSE construct_jump_offset(con,
                               Maker_translate_from_original(
                                  con.mod_operations,
                                  IF jump_type = "START" THEN num_bits
                                  ELSE L - num_bits),
                               pos)

\* Constructor.handle_jump: pos = self.tell() comes first, and neither
\* Constructor nor Maker defines tell
Constructor_handle_jump(con, num_bits, jump_type) ==
    IF "tell" \notin Constructor_methods THEN Raise(con, "AttributeError")
    ELSE construct_jump_target(Maker_len(con), num_bits, jump_type,
                               Maker_tell_buffer(con), BitsIO_len(con.bit_stream))

\* one iteration of the loop of Constructor.__call__ on an instruction that
\* pattern_parse yielded
Constructor_call_instruction(con, instruction) ==
    IF instruction.err # "" THEN Raise(con, instruction.err)
    ELSE IF method_name(instruction.directive) \notin Constructor_methods
    THEN Raise([con EXCEPT !.tok = instruction.tok], "AttributeError")
    ELSE CASE instruction.directive = "VALUE" ->
                Constructor_handle_value([con EXCEPT !.tok = instruction.tok],
                                         instruction.num_bits, instruction.encoding)
           [] instruction.directive = "NEXT" ->
                Constructor_handle_next([con EXCEPT !.tok = instruction.tok],
                                        instruction.num_bits)
           [] instruction.directive = "ZEROS" ->
                Constructor_handle_zeros([con EXCEPT !.tok = instruction.tok],
                                         instruction.num_bits)
           [] instruction.directive = "ONES" ->
                Constructor_handle_ones([con EXCEPT !.tok = instruction.tok],
                                        instruction.num_bits)
           [] instruction.directive = "MOD" ->
                Constructor_handle_mod([con EXCEPT !.tok = instruction.tok],
                                       IF instruction.to_end THEN ToEnd
                                       ELSE instruction.num_bits,
                                       instruction.modtype)
           [] instruction.directive = "MODOFF" /\ ~instruction.to_end ->
                Constructor_handle_modoff([con EXCEPT !.tok = instruction.tok],
                                          instruction.offset_bits, instruction.num_bits,
                                          instruction.modtype)
           [] instruction.directive = "MODOFF" /\ instruction.to_end ->
                Constructor_handle_modoff_None([con EXCEPT !.tok = instruction.tok],
                                               instruction.offset_bits,
                                               instruction.modtype)
           [] instruction.directive = "MODSET" ->
                Maker_handle_modset([con EXCEPT !.tok = instruction.tok],
                                    instruction.modtype, instruction.setting)
           [] instruction.directive = "SETLABEL" ->
                Constructor_handle_setlabel([con EXCEPT !.tok = instruction.tok],
                                            instruction.label)
           [] instruction.directive = "DEFLABEL" ->
                Constructor_handle_deflabel([con EXCEPT !.tok = instruction.tok],
                                            instruction.label, instruction.value)
           [] instruction.directive = "NESTOPEN" ->
                Constructor_handle_nestopen([con EXCEPT !.tok = instruction.tok])
           [] instruction.directive = "NESTCLOSE" ->
                Constructor_handle_nestclose([con EXCEPT !.tok = instruction.tok])
           [] instruction.directive = "JUMP" ->
                Constructor_handle_jump([con EXCEPT !.tok = instruction.tok],
                                        instruction.num_bits, instruction.jump_type)

\* the loop of Constructor.__call__ over the instructions of one token
RECURSIVE Constructor_call_instructions(_, _)
Constructor_call_instructions(con, instructions) ==
    IF Len(instructions) = 0 \/ con.err # "" THEN con
    ELSE Constructor_call_instructions(
            Constructor_call_instruction(con, Head(instructions)), Tail(instructions))

\* the loop of Constructor.__call__ on the next token of the blueprint
Constructor_call_step(con, tok) ==
    Constructor_call_instructions(con, pattern_parse_token(tok))

\* the loop of Constructor.__call__ over the instructions y that
\* pattern_parse yields at one token, from the i-th on
RECURSIVE Constructor_call_yielded(_, _, _)
Constructor_call_yielded(con, y, i) ==
    IF con.err # "" THEN con
    ELSE IF i > Len(y.once) /\ ~y.forever THEN con
    ELSE IF i > Len(y.once) /\ Len(y.again) = 0 THEN Raise(con, "never returns")
    ELSE Constructor_call_yielded(Constructor_call_step(con, yielded_item(y, i)),
                                  y, i + 1)

\* the loop of Constructor.__call__ on the token that follows the tokens p
\* of the pattern
Constructor_call_next(con, p, tok) ==
    IF parse_error(p, tok) # "" THEN Raise(con, parse_error(p, tok))
    ELSE Constructor_call_yielded(con, yielded(p, tok), 1)

\* Constructor.__call__ on the instructions of a pattern
RECURSIVE Constructor_call_from(_, _, _)
Constructor_call_from(con, pattern, i) ==
    IF i > Len(pattern) \/ con.err # "" THEN con
    ELSE Constructor_call_from(
            Constructor_call_next(con, SubSeq(pattern, 1, i - 1), pattern[i]),
            pattern, i + 1)

Constructor_call(con, pattern) == Constructor_call_from(con, pattern, 1)

\* the number of bits of a logged operation: None is L - (start+offset)
\* (lines 873-874)
finalize_num_bits(op, L) ==
    IF op.num_bits = ToEnd THEN L - (op.start + op.offset) ELSE op.num_bits

\* the body of the loop of Constructor.finalize for one logged operation; L
\* is the length of the buffer when finalize began
finalize_operation(con, op, L) ==
    IF op.modtype = "ENDIANCHECK"
    THEN (IF finalize_num_bits(op, L) % 8 # 0 THEN Raise(con, "Exception") ELSE con)
    ELSE IF op.modtype = "REVERSE"
    THEN Maker_reverse(Maker_seek(con, op.start + op.offset, SEEK_SET),
                       finalize_num_bits(op, L))
    ELSE IF op.modtype = "INVERT"
    THEN Maker_invert(Maker_seek(con, op.start + op.offset, SEEK_SET),
                      finalize_num_bits(op, L))
    ELSE Raise(con, "Exception")

\* a variant of the loop of Constructor.finalize that walks the log in the
\* order it was written (without the [::-1] of line 872)
RECURSIVE finalize_loop_forward(_, _, _)
finalize_loop_forward(con, ops, L) ==
    IF Len(ops) = 0 \/ con.err # "" THEN con
    ELSE finalize_loop_forward(finalize_operation(con, Head(ops), L), Tail(ops), L)

\* the loop of Constructor.finalize over self.mod_operations[::-1]
RECURSIVE Constructor_finalize_loop(_, _, _)
Constructor_finalize_loop(con, ops, L) ==
    IF Len(ops) = 0 \/ con.err # "" THEN con
    ELSE Constructor_finalize_loop(finalize_operation(con, Last(ops), L), Front(ops), L)

\* Constructor.finalize
Constructor_finalize(con) ==
    IF Len(con.stack) > 1 THEN Raise(con, "NestingError")
    ELSE IF Len(con.stack) < 1 THEN Raise(con, "NestingError")
    ELSE Maker_seek(Constructor_finalize_loop(Maker_len(con), con.mod_operations,
                                              BitsIO_len(con.bit_stream)),
                    Maker_tell_buffer(con), SEEK_SET)

\* construct: maker.finalize() unless the call raised
finalize_constructor(maker) ==
    IF maker.err # "" THEN maker ELSE Constructor_finalize(maker)

\* construct(blueprint, data_stream): the maker returned, or the maker in
\* which the exception was raised
construct(blueprint, data_stream) ==
    finalize_constructor(Constructor_call(Constructor_init(data_stream), blueprint))

\* Maker.__bytes__
Maker_bytes(maker) == maker.bit_stream.buf

\* construct_bytes_stream: return maker.bytes_stream; the attribute of a
\* Constructor is byte_stream
maker_bytes_stream(maker) ==
    IF maker.err # "" THEN [err |-> maker.err, bytes |-> << >>]
    ELSE IF "bytes_stream" \notin Constructor_attributes
    THEN [err |-> "AttributeError", bytes |-> << >>]
    ELSE [err |-> "", bytes |-> Maker_bytes(maker)]

\* construct_bytes_stream(data_stream, blueprint): [err, bytes]
construct_bytes_stream(data_stream, blueprint) ==
    maker_bytes_stream(construct(blueprint, data_stream))

(***************************************************************************)
(* The state machine.  One extraction session: extract(P, X) runs the      *)
(* instructions of the blueprint P one after the other over the input X    *)
(* (prog is the part of P executed so far), then finalizes; the data tree  *)
(* it produced is then given to construct, or taken through                *)
(* construct_bytes_stream and extract_data_structure.                      *)
(***************************************************************************)
VARIABLES X, prog, ex, phase, con, rt

vars == <<X, prog, ex, phase, con, rt>>

\* bounds of the model
MaxProg == 3
MaxBytes == 2

\* the byte values inputs are made of: 0x00, 0x12, 0xB2 (S2 of the spec)
ByteValues == {0, 18, 178}

RECURSIVE SeqsUpTo(_, _)
SeqsUpTo(S, n) ==
    IF n = 0 THEN {<< >>}
    ELSE LET shorter == SeqsUpTo(S, n - 1)
         IN  shorter \cup {Append(q, b) : q \in shorter, b \in S}

\* scenario S5 of the spec: m^"AA" u8 m$"AA" on 11 22 AA 77
S5_input == <<17, 34, 170, 119>>
S5_blueprint ==
    <<Tok("m^\"AA\"", "m^", FALSE, 0, 0, "AA"),
      Tok("u8", "u", FALSE, 8, 0, ""),
      Tok("m$\"AA\"", "m$", FALSE, 0, 0, "AA")>>

\* scenario S6 of the spec: u8 B$ on 05 'h' 'i'
S6_input == <<5, 104, 105>>
S6_blueprint ==
    <<Tok("u8", "u", FALSE, 8, 0, ""),
      Tok("B$", "B$", FALSE, 0, 0, "")>>

\* scenario S4 of the spec: {u8}3 on 01 02 03
S4_input == <<1, 2, 3>>
S4_blueprint ==
    <<Tok("{", "{", FALSE, 0, 0, ""),
      Tok("u8", "u", FALSE, 8, 0, ""),
      Tok("}3", "}", FALSE, 3, 0, "")>>

\* an unbounded repetition: {u8}$ on 01 02
Unbounded_input == <<1, 2>>
Unbounded_blueprint ==
    <<Tok("{", "{", FALSE, 0, 0, ""),
      Tok("u8", "u", FALSE, 8, 0, ""),
      Tok("}$", "}", FALSE, ToEnd, 0, "")>>

\* a repetition inside a repetition, of tokens that build no value:
\* {r8 {n4}2}2 on 01 02 03 04
Nested_input == <<1, 2, 3, 4>>
Nested_blueprint ==
    <<Tok("{", "{", FALSE, 0, 0, ""),
      Tok("r8", "r", FALSE, 8, 0, ""),
      Tok("{", "{", FALSE, 0, 0, ""),
      Tok("n4", "n", FALSE, 4, 0, ""),
      Tok("}2", "}", FALSE, 2, 0, ""),
      Tok("}2", "}", FALSE, 2, 0, "")>>

\* a '}' no '{' precedes: n8 }2 on 01 02 03 04 05
Unopened_input == <<1, 2, 3, 4, 5>>
Unopened_blueprint ==
    <<Tok("n8", "n", FALSE, 8, 0, ""),
      Tok("}2", "}", FALSE, 2, 0, "")>>

\* a zeros token and a ones token that ask for more bits than are left:
\* n8 z8 on 07 and n8 o8 on 09
ZerosShort_input == <<7>>
ZerosShort_blueprint ==
    <<Tok("n8", "n", FALSE, 8, 0, ""), Tok("z8", "z", FALSE, 8, 0, "")>>
OnesShort_input == <<9>>
OnesShort_blueprint ==
    <<Tok("n8", "n", FALSE, 8, 0, ""), Tok("o8", "o", FALSE, 8, 0, "")>>

\* an endian swap of a width that is no multiple of 8: Ey u4 on 0B
EndianWidth_input == <<11>>
EndianWidth_blueprint ==
    <<Tok("Ey", "E", FALSE, 0, 0, "y"), Tok("u4", "u", FALSE, 4, 0, "")>>

ScenarioInputs ==
    {S4_input, S5_input, S6_input, Unbounded_input, Nested_input, Unopened_input,
     ZerosShort_input, OnesShort_input, EndianWidth_input}

\* the blueprint a scenario input is run with
ScenarioBlueprint(x) ==
    CASE x = S4_input -> S4_blueprint
      [] x = S5_input -> S5_blueprint
      [] x = S6_input -> S6_blueprint
      [] x = Unbounded_input -> Unbounded_blueprint
      [] x = Nested_input -> Nested_blueprint
      [] x = Unopened_input -> Unopened_blueprint
      [] x = ZerosShort_input -> ZerosShort_blueprint
      [] x = OnesShort_input -> OnesShort_blueprint
      [] x = EndianWidth_input -> EndianWidth_blueprint

Inputs == SeqsUpTo(ByteValues, MaxBytes) \cup ScenarioInputs

\* the tokens blueprints are made of
Tokens ==
    {Tok("u8", "u", FALSE, 8, 0, ""),
     Tok("n4", "n", FALSE, 4, 0, ""),
     Tok("n8", "n", FALSE, 8, 0, ""),
     Tok("r4", "r", FALSE, 4, 0, ""),
     Tok("r8", "r", FALSE, 8, 0, ""),
     Tok("i4", "i", FALSE, 4, 0, ""),
     Tok("e8", "e", FALSE, 8, 0, ""),
     Tok("e16", "e", FALSE, 16, 0, ""),
     Tok("r4.4", "r", TRUE, 4, 4, ""),
     Tok("p4.4", "p", TRUE, 4, 4, ""),
     Tok("p4.8", "p", TRUE, 4, 8, ""),
     Tok("Ry", "R", FALSE, 0, 0, "y"),
     Tok("Iy", "I", FALSE, 0, 0, "y"),
     Tok("Ey", "E", FALSE, 0, 0, "y"),
     Tok("#\"L\"", "#", FALSE, 0, 0, "L"),
     Tok("!#\"L\"=5;", "!#", FALSE, 5, 0, "L"),
     Tok("[", "[", FALSE, 0, 0, ""),
     Tok("]", "]", FALSE, 0, 0, ""),
     Tok("js0", "js", FALSE, 0, 0, ""),
     Tok("js4", "js", FALSE, 4, 0, ""),
     Tok("js8", "js", FALSE, 8, 0, ""),
     Tok("js16", "js", FALSE, 16, 0, ""),
     Tok("jf8", "jf", FALSE, 8, 0, ""),
     Tok("m^\"AA\"", "m^", FALSE, 0, 0, "AA"),
     Tok("m$\"AA\"", "m$", FALSE, 0, 0, "AA"),
     Tok("B$", "B$", FALSE, 0, 0, ""),
     Tok("r$", "r$", FALSE, 0, 0, ""),
     Tok("i$", "i$", FALSE, 0, 0, ""),
     Tok("r4.$", "r", TRUE, 4, ToEnd, ""),
     Tok("p4.$", "p", TRUE, 4, ToEnd, "")}

\* blueprints that bind the label L twice, to two different values: the
\* second binding follows a second jump, or a closed list
LabelBlueprints ==
    {<<Tok("js8", "js", FALSE, 8, 0, ""), Tok("#\"L\"", "#", FALSE, 0, 0, "L"),
       Tok("js4", "js", FALSE, 4, 0, ""), Tok("#\"L\"", "#", FALSE, 0, 0, "L")>>,
     <<Tok("js8", "js", FALSE, 8, 0, ""), Tok("#\"L\"", "#", FALSE, 0, 0, "L"),
       Tok("[", "[", FALSE, 0, 0, ""), Tok("]", "]", FALSE, 0, 0, ""),
       Tok("#\"L\"", "#", FALSE, 0, 0, "L")>>}

\* the tokens that can follow p in a blueprint run on the input x: a scenario
\* input runs its own blueprint, every other input any blueprint of up to
\* MaxProg tokens and the blueprints of LabelBlueprints
NextTokens(x, p) ==
    IF x \in ScenarioInputs
    THEN (IF Len(p) < Len(ScenarioBlueprint(x))
          THEN {ScenarioBlueprint(x)[Len(p) + 1]} ELSE {})
    ELSE (IF Len(p) < MaxProg THEN Tokens ELSE {})
         \cup {b[Len(p) + 1] : b \in {l \in LabelBlueprints :
                                        Len(l) > Len(p) /\ SubSeq(l, 1, Len(p)) = p}}

\* the blueprint may end after p
BlueprintEnds(x, p) == x \in ScenarioInputs => p = ScenarioBlueprint(x)

TokensOf(directives) ==
    IF phase = "extract" /\ ex.err = ""
    THEN {tok \in NextTokens(X, prog) : pattern_parse_token(tok)[1].directive \in directives}
    ELSE {}

Init ==
    /\ X \in Inputs
    /\ prog = << >>
    /\ ex = Extractor_init(X)
    /\ phase = "extract"
    /\ con = None
    /\ rt = None

\* one iteration of Extractor.__call__ on the next token of the blueprint
Step(tok, dbg) ==
    /\ phase = "extract"
    /\ ex.err = ""
    /\ ex' = Extractor_call_next(ex, prog, tok, dbg)
    /\ prog' = Append(prog, tok)
    /\ UNCHANGED <<X, phase, con, rt>>

HandleValue == \E tok \in TokensOf({"VALUE"}), dbg \in DebuggerOutcomes : Step(tok, dbg)
HandleNext == \E tok \in TokensOf({"NEXT"}) : Step(tok, "continue")
HandleZeros == \E tok \in TokensOf({"ZEROS"}), dbg \in DebuggerOutcomes : Step(tok, dbg)
HandleOnes == \E tok \in TokensOf({"ONES"}), dbg \in DebuggerOutcomes : Step(tok, dbg)
HandleMod == \E tok \in TokensOf({"MOD"}) : Step(tok, "continue")
HandleModoff == \E tok \in TokensOf({"MODOFF"}) : Step(tok, "continue")
HandleModset == \E tok \in TokensOf({"MODSET"}) : Step(tok, "continue")
HandleSetlabel == \E tok \in TokensOf({"SETLABEL"}) : Step(tok, "continue")
HandleDeflabel == \E tok \in TokensOf({"DEFLABEL"}) : Step(tok, "continue")
HandleNestopen == \E tok \in TokensOf({"NESTOPEN"}) : Step(tok, "continue")
HandleNestclose == \E tok \in TokensOf({"NESTCLOSE"}) : Step(tok, "continue")
HandleJump == \E tok \in TokensOf({"JUMP"}) : Step(tok, "continue")
HandleMarker == \E tok \in TokensOf({"MARKERSTART", "MARKEREND"}) : Step(tok, "continue")

\* the next token is one tok_parse does not match (line 262), or one no branch
\* of the parser knows (line 249)
PatternParseError == \E tok \in TokensOf({""}) : Step(tok, "continue")

\* the next token is '{' or '}<n>': with the '}' of the outermost capture
\* the loop of Extractor.__call__ runs the whole repetition
HandleRepetition ==
    \E tok \in TokensOf({"REPETITION"}), dbg \in DebuggerOutcomes : Step(tok, dbg)

\* maker.finalize() at the end of extract
Finalize ==
    /\ phase = "extract"
    /\ ex.err = ""
    /\ BlueprintEnds(X, prog)
    /\ ex' = Extractor_finalize(ex)
    /\ phase' = "finalized"
    /\ UNCHANGED <<X, prog, con, rt>>

\* construct(P, maker.data_structure)
Construct ==
    /\ phase = "finalized"
    /\ ex.err = ""
    /\ con' = construct(prog, Maker_data_structure(ex))
    /\ phase' = "constructed"
    /\ UNCHANGED <<X, prog, ex, rt>>

\* extract_data_structure(P, b) for the bytes b construct_bytes_stream returned
reextract(b, blueprint, dbg) ==
    IF b.err # "" THEN [err |-> b.err, data_structure |-> None]
    ELSE extract_data_structure(blueprint, b.bytes, dbg)

\* extract_data_structure(P, construct_bytes_stream(T, P))
ReExtract ==
    /\ phase = "finalized"
    /\ ex.err = ""
    /\ LET b == construct_bytes_stream(Maker_data_structure(ex), prog)
       IN  \E dbg \in DebuggerOutcomes : rt' = reextract(b, prog, dbg)
    /\ phase' = "reextracted"
    /\ UNCHANGED <<X, prog, ex, con>>

Next ==
    \/ HandleValue
    \/ HandleNext
    \/ HandleZeros
    \/ HandleOnes
    \/ HandleMod
    \/ HandleModoff
    \/ HandleModset
    \/ HandleSetlabel
    \/ HandleDeflabel
    \/ HandleNestopen
    \/ HandleNestclose
    \/ HandleJump
    \/ HandleMarker
    \/ PatternParseError
    \/ HandleRepetition
    \/ Finalize
    \/ Construct
    \/ ReExtract

Spec == Init /\ [][Next]_vars

(***************************************************************************)
(* flatten and deflatten applied to drawn inputs.  X is the input: a data  *)
(* structure [T], or a structure pattern with a data stream [s, xs]; ex is *)
(* what flatten returned and con what deflatten returned (None before the  *)
(* call).                                                                  *)
(***************************************************************************)
MaxNodes == 4
MaxPattern == 4

\* the values data structures hold
FlattenValues == {IntV(1), IntV(2)}

\* the sequences of items with n nodes in all (a value is one node, a list
\* one node plus its items)
RECURSIVE ItemsOfSize(_)
ItemsOfSize(n) ==
    IF n = 0 THEN {<< >>}
    ELSE UNION {{<<item>> \o rest :
                    item \in IF k = 1 THEN FlattenValues \cup {ListV(<< >>)}
                             ELSE {ListV(kids) : kids \in ItemsOfSize(k - 1)},
                    rest \in ItemsOfSize(n - k)} : k \in 1..n}

\* the nested lists of up to MaxNodes nodes
DataStructures == UNION {{ListV(kids) : kids \in ItemsOfSize(n)} : n \in 0..MaxNodes}

\* the nesting depth after each prefix of a pattern stays >= 0 and ends at 0
RECURSIVE Balanced(_, _)
Balanced(s, depth) ==
    IF depth < 0 THEN FALSE
    ELSE IF Len(s) = 0 THEN depth = 0
    ELSE Balanced(Tail(s), CASE Head(s) = "[" -> depth + 1
                             [] Head(s) = "]" -> depth - 1
                             [] OTHER -> depth)

CountDots(s) == Cardinality({i \in 1..Len(s) : s[i] = "."})

\* the balanced structure patterns of up to MaxPattern characters
StructurePatterns == {s \in SeqsUpTo({".", "[", "]"}, MaxPattern) : Balanced(s, 0)}

FlattenInputs ==
    {[T |-> t] : t \in DataStructures}
    \cup UNION {{[s |-> s, xs |-> xs] : xs \in [1..CountDots(s) -> FlattenValues]} :
                   s \in StructurePatterns}

FlattenInit ==
    /\ X \in FlattenInputs
    /\ prog = << >>
    /\ ex = None
    /\ phase = "flatten"
    /\ con = None
    /\ rt = None

\* flatten(T)
FlattenStructure ==
    /\ phase = "flatten" /\ "T" \in DOMAIN X /\ ex = None
    /\ ex' = flatten(X.T)
    /\ UNCHANGED <<X, prog, phase, con, rt>>

\* deflatten(s, xs) on what flatten(T) returned
DeflattenFlattened ==
    /\ phase = "flatten" /\ "T" \in DOMAIN X /\ ex # None /\ con = None
    /\ con' = deflatten(ex.structure_pattern, ex.data_stream)
    /\ UNCHANGED <<X, prog, phase, ex, rt>>

\* deflatten(s, xs)
DeflattenPattern ==
    /\ phase = "flatten" /\ "s" \in DOMAIN X /\ con = None
    /\ con' = deflatten(X.s, X.xs)
    /\ UNCHANGED <<X, prog, phase, ex, rt>>

\* flatten on what deflatten(s, xs) returned
FlattenDeflattened ==
    /\ phase = "flatten" /\ "s" \in DOMAIN X /\ con # None /\ con.err = "" /\ ex = None
    /\ ex' = flatten(con.data_structure)
    /\ UNCHANGED <<X, prog, phase, con, rt>>

FlattenNext ==
    \/ FlattenStructure
    \/ DeflattenFlattened
    \/ DeflattenPattern
    \/ FlattenDeflattened

SpecFlatten == FlattenInit /\ [][FlattenNext]_vars

(***************************************************************************)
(* The public operations of a BitsIO applied in sequence to a drawn        *)
(* buffer.  X is the initial content, prog the operations applied so far,  *)
(* ex the BitsIO before the last operation, con the BitsIO after it and rt *)
(* what the last operation returned (None when it returns nothing or       *)
(* raised).                                                                *)
(***************************************************************************)
MaxOps == 2
MaxBuffer == 3

\* the offsets, sizes, values and literals the operations are called with
SeekOffsets == {-8, -4, 0, 4, 8, 12}
ReadSizes == {4, 8, 12}
WriteSizes == {4, 8}
WriteValues(n) == {0, 5, Pow2(n) - 1}
FindLiterals == {<< >>, <<18>>, <<178>>, <<18, 178>>}

IOInit ==
    /\ X \in SeqsUpTo(ByteValues, MaxBuffer)
    /\ prog = << >>
    /\ ex = None
    /\ con = BitsIO_init(X)
    /\ rt = None
    /\ phase = "io"

\* one call on the BitsIO: op is the call, after the stream it leaves and
\* result what it returns
IOStep(op, after, result) ==
    /\ phase = "io" /\ con.err = "" /\ Len(prog) < MaxOps
    /\ prog' = Append(prog, op)
    /\ ex' = con
    /\ con' = after
    /\ rt' = IF after.err # "" THEN None ELSE result
    /\ UNCHANGED <<X, phase>>

\* seek(off, whence) returns self.bit_seek_pos
IOSeek ==
    \E off \in SeekOffsets, whence \in {SEEK_SET, SEEK_CUR, SEEK_END} :
        IOStep([op |-> "seek", a |-> off, b |-> whence],
               BitsIO_seek(con, off, whence),
               IntV(BitsIO_seek(con, off, whence).bit_seek_pos))

\* read(n) returns value, num_bits
IORead ==
    \E n \in ReadSizes :
        IOStep([op |-> "read", a |-> n, b |-> 0],
               BitsIO_read(con, n).io,
               [value |-> BitsIO_read(con, n).value,
                num_bits |-> BitsIO_read(con, n).num_bits])

\* write(v, n)
IOWrite ==
    \E n \in WriteSizes : \E v \in WriteValues(n) :
        IOStep([op |-> "write", a |-> v, b |-> n], BitsIO_write(con, v, n), None)

\* reverse(n)
IOReverse ==
    \E n \in WriteSizes :
        IOStep([op |-> "reverse", a |-> n, b |-> 0], BitsIO_reverse(con, n), None)

\* invert(n)
IOInvert ==
    \E n \in WriteSizes :
        IOStep([op |-> "invert", a |-> n, b |-> 0], BitsIO_invert(con, n), None)

\* find(sub) returns bit_offset
IOFind ==
    \E sub \in FindLiterals :
        IOStep([op |-> "find", a |-> sub, b |-> 0],
               BitsIO_find(con, sub).io,
               IntV(BitsIO_find(con, sub).value))

IONext ==
    \/ IOSeek
    \/ IORead
    \/ IOWrite
    \/ IOReverse
    \/ IOInvert
    \/ IOFind

SpecIO == IOInit /\ [][IONext]_vars

(***************************************************************************)
(* uint_to_bytes and bytes_to_uint applied to drawn inputs.  X is the      *)
(* input [uint, num_bits, loffset, reverse, invert]; ex is what            *)
(* uint_to_bytes returned and con what bytes_to_uint returned on it (None  *)
(* before the call).                                                       *)
(***************************************************************************)
MaxWidth == 9

\* the bits left over in the last byte of a span of num_bits bits that
\* starts loffset bits into its first byte
SpanRstrip(loffset, num_bits) == (8 - ((loffset + num_bits) % 8)) % 8

CodecInit ==
    /\ X \in [uint : 0..(Pow2(MaxWidth) - 1), num_bits : 0..MaxWidth,
               loffset : 0..7, reverse : BOOLEAN, invert : BOOLEAN]
    /\ uint_fits(X.uint, X.num_bits)
    /\ prog = << >>
    /\ ex = None
    /\ con = None
    /\ rt = None
    /\ phase = "bit_utils"

\* uint_to_bytes(uint, num_bits, loffset, 0, 0, reverse, invert)
UintToBytes ==
    /\ phase = "bit_utils" /\ ex = None
    /\ ex' = uint_to_bytes(X.uint, X.num_bits, X.loffset, 0, 0, X.reverse, X.invert)
    /\ UNCHANGED <<X, prog, phase, con, rt>>

\* bytes_to_uint on the bytes returned, with lstrip = loffset and rstrip the
\* bits left over in the last byte
BytesToUint ==
    /\ phase = "bit_utils" /\ ex # None /\ ex.err = "" /\ con = None
    /\ con' = bytes_to_uint(ex.bytes, X.loffset, SpanRstrip(X.loffset, X.num_bits),
                            X.reverse, X.invert)
    /\ UNCHANGED <<X, prog, phase, ex, rt>>

CodecNext ==
    \/ UintToBytes
    \/ BytesToUint

SpecCodec == CodecInit /\ [][CodecNext]_vars

(***************************************************************************)
(* uint_decode and uint_encode applied to drawn inputs.  X is the input    *)
(* [uint, num_bits, encoding]; ex is what uint_decode returned and con     *)
(* what uint_encode returned on it (None before the call).                 *)
(***************************************************************************)
MaxEncWidth == 6

\* the encodings whose values are ints or strs of digits
DigitEncodings == {"UINT", "SINT", "LHEX", "UHEX", "BINS"}

EncodingInit ==
    /\ X \in [uint : 0..(Pow2(MaxEncWidth) - 1), num_bits : 1..MaxEncWidth,
               encoding : DigitEncodings]
    /\ X.uint < Pow2(X.num_bits)
    /\ prog = << >>
    /\ ex = None
    /\ con = None
    /\ rt = None
    /\ phase = "encoding"

\* uint_decode(uint, num_bits, encoding)
UintDecode ==
    /\ phase = "encoding" /\ ex = None
    /\ ex' = uint_decode(X.uint, X.num_bits, X.encoding)
    /\ UNCHANGED <<X, prog, phase, con, rt>>

\* uint_encode on the value returned
UintEncode ==
    /\ phase = "encoding" /\ ex # None /\ con = None
    /\ con' = IntV(uint_encode(ex, X.num_bits, X.encoding))
    /\ UNCHANGED <<X, prog, phase, ex, rt>>

EncodingNext ==
    \/ UintDecode
    \/ UintEncode

SpecEncoding == EncodingInit /\ [][EncodingNext]_vars

(***************************************************************************)
(* pattern_parse applied to the value tokens of the grammar.  X is the     *)
(* token, ex.instructions the instructions pattern_parse yielded for it,   *)
(* the last one holding the exception if one was raised (ex is None before *)
(* the call).                                                              *)
(***************************************************************************)
MaxTokWidth == 16

\* the token <code><n>
ValueTok(code, n) == Tok(code \o ToString(n), code, FALSE, n, 0, "")

\* the value tokens of the grammar: u<n> s<n> x<n> X<n> b<n> B<n> C<n>, f32, f64
ValueTokens ==
    {ValueTok(code, n) : code \in {"u", "s", "x", "X", "b", "B", "C"}, n \in 1..MaxTokWidth}
    \cup {ValueTok("f", 32), ValueTok("f", 64)}

ParseInit ==
    /\ X \in ValueTokens
    /\ prog = << >>
    /\ ex = None
    /\ con = None
    /\ rt = None
    /\ phase = "parse"

\* list(pattern_parse(token))
PatternParse ==
    /\ phase = "parse" /\ ex = None
    /\ ex' = [instructions |-> pattern_parse_token(X)]
    /\ UNCHANGED <<X, prog, phase, con, rt>>

ParseNext == PatternParse

SpecParse == ParseInit /\ [][ParseNext]_vars

(***************************************************************************)
(* Constructor.__call__ and Constructor.finalize applied to drawn          *)
(* blueprints, with an empty data stream.  X is the blueprint, ex the      *)
(* constructor after __call__ and con the constructor after finalize (None *)
(* before the call).                                                       *)
(***************************************************************************)
MaxBlueprint == 4

\* tokens a constructor executes without reading the data stream
FinalizeTokens ==
    {Tok("Ry", "R", FALSE, 0, 0, "y"),
     Tok("Iy", "I", FALSE, 0, 0, "y"),
     Tok("z8", "z", FALSE, 8, 0, ""),
     Tok("o8", "o", FALSE, 8, 0, ""),
     Tok("n8", "n", FALSE, 8, 0, ""),
     Tok("p4.4", "p", TRUE, 4, 4, ""),
     Tok("p4.12", "p", TRUE, 4, 12, ""),
     Tok("[", "[", FALSE, 0, 0, "")}

FinalizeInit ==
    /\ X \in SeqsUpTo(FinalizeTokens, MaxBlueprint)
    /\ prog = << >>
    /\ ex = None
    /\ con = None
    /\ rt = None
    /\ phase = "construct"

\* maker(blueprint) of construct
ConstructorCall ==
    /\ phase = "construct"
    /\ ex' = Constructor_call(Constructor_init(ListV(<< >>)), X)
    /\ prog' = X
    /\ phase' = "called"
    /\ UNCHANGED <<X, con, rt>>

\* maker.finalize() of construct
ConstructorFinalize ==
    /\ phase = "called"
    /\ ex.err = ""
    /\ con' = Constructor_finalize(ex)
    /\ phase' = "finalize"
    /\ UNCHANGED <<X, prog, ex, rt>>

FinalizeNext == ConstructorCall \/ ConstructorFinalize

SpecFinalize == FinalizeInit /\ [][FinalizeNext]_vars

(***************************************************************************)
(* Extractor.handle_marker called on an extractor after calls of the       *)
(* extractor with short patterns.  X is the input, prog the patterns of    *)
(* the calls, ex the extractor, con the extractor before the marker scan   *)
(* (None before the scan).                                                 *)
(***************************************************************************)
MaxMarkerBytes == 3
MaxMarkerCalls == 2

\* the byte values of the inputs: 0x11 and the marker 0xAA
MarkerByteValues == {17, 170}

\* the literal scanned for
MarkerLiteral == <<170>>

\* the patterns the extractor is called with before the scan
MarkerPatterns ==
    {<<Tok("Rn", "R", FALSE, 0, 0, "n")>>,
     <<Tok("n8", "n", FALSE, 8, 0, "")>>,
     <<Tok("n4", "n", FALSE, 4, 0, "")>>,
     <<Tok("Ry", "R", FALSE, 0, 0, "y")>>}

MarkerInit ==
    /\ X \in SeqsUpTo(MarkerByteValues, MaxMarkerBytes)
    /\ prog = << >>
    /\ ex = Extractor_init(X)
    /\ con = None
    /\ rt = None
    /\ phase = "marker"

\* extractor(pattern)
MarkerCall ==
    /\ phase = "marker"
    /\ ex.err = ""
    /\ Len(prog) < MaxMarkerCalls
    /\ \E pattern \in MarkerPatterns :
          /\ ex' = Extractor_call(ex, pattern, "continue")
          /\ prog' = Append(prog, pattern)
    /\ UNCHANGED <<X, con, rt, phase>>

\* extractor.handle_marker(literal), after a call has bound stack_record and
\* tok
MarkerScan ==
    /\ phase = "marker"
    /\ ex.err = ""
    /\ Len(prog) >= 1
    /\ \E dbg \in DebuggerOutcomes :
          ex' = Extractor_handle_marker(ex, MarkerLiteral, dbg)
    /\ con' = ex
    /\ phase' = "scanned"
    /\ UNCHANGED <<X, prog, rt>>

MarkerNext == MarkerCall \/ MarkerScan

SpecMarker == MarkerInit /\ [][MarkerNext]_vars

(***************************************************************************)
(* Extractor.__call__ applied to drawn patterns of repetition tokens and   *)
(* of tokens that log one record each.  X is the input, prog the pattern   *)
(* of the call and ex the extractor.                                       *)
(***************************************************************************)
MaxRepetitionPattern == 4

\* the tokens of the patterns: { and }2, and r8 and i4, which append one
\* record to the log whenever they are executed
RepetitionTokens ==
    {Tok("{", "{", FALSE, 0, 0, ""),
     Tok("}2", "}", FALSE, 2, 0, ""),
     Tok("r8", "r", FALSE, 8, 0, ""),
     Tok("i4", "i", FALSE, 4, 0, "")}

\* the inputs of the calls: 01 02 and 01 02 03 04
RepetitionInputs == {<<1, 2>>, <<1, 2, 3, 4>>}

RepetitionInit ==
    /\ X \in RepetitionInputs
    /\ prog \in SeqsUpTo(RepetitionTokens, MaxRepetitionPattern)
    /\ ex = Extractor_init(X)
    /\ con = None
    /\ rt = None
    /\ phase = "pattern"

\* extractor(pattern)
RepetitionCall ==
    /\ phase = "pattern"
    /\ \E dbg \in DebuggerOutcomes : ex' = Extractor_call(ex, prog, dbg)
    /\ phase' = "called"
    /\ UNCHANGED <<X, prog, con, rt>>

\* extractor.finalize() after a call that raised nothing
RepetitionFinalize ==
    /\ phase = "called"
    /\ ex.err = ""
    /\ ex' = Extractor_finalize(ex)
    /\ phase' = "finalized"
    /\ UNCHANGED <<X, prog, con, rt>>

RepetitionNext == RepetitionCall \/ RepetitionFinalize

SpecRepetition == RepetitionInit /\ [][RepetitionNext]_vars

(***************************************************************************)
(* Properties of an extraction session.                                    *)
(***************************************************************************)
\* bit i (counted from 0) of a bytes object: bit 7 - (i mod 8) of byte i div 8
BitAt(bytes_data, i) == (bytes_data[(i \div 8) + 1] \div Pow2(7 - (i % 8))) % 2

\* the bits of a bytes object, first bit first
BitsOf(bytes_data) == [i \in 1..(8 * Len(bytes_data)) |-> BitAt(bytes_data, i - 1)]

\* a blueprint prefix made of skips n<k> only, and the bits it skips
OnlySkips(p) == \A i \in 1..Len(p) : p[i].code = "n"

RECURSIVE SkippedBits(_)
SkippedBits(p) == IF Len(p) = 0 THEN 0 ELSE Head(p).a + SkippedBits(Tail(p))

\* the tokens r<n>, i<n>, e<n> and r<m>.<n>
ModTok(code, n) == Tok(code \o ToString(n), code, FALSE, n, 0, "")
ModoffTok(code, m, n) ==
    Tok(code \o ToString(m) \o "." \o ToString(n), code, TRUE, m, n, "")

\* the layout S|N|M|E made from S|M|N|E, M being the m bits at c and N the
\* n bits after them
PullLayout(bits, c, m, n) ==
    [i \in 1..Len(bits) |->
        IF i <= c \/ i > c + m + n THEN bits[i]
        ELSE IF i <= c + n THEN bits[i + m]
        ELSE bits[i - n]]

\* the k bytes at c in reverse order, the bit order inside each byte kept
ByteSwapLayout(bits, c, k) ==
    [i \in 1..Len(bits) |->
        IF i <= c \/ i > c + 8 * k THEN bits[i]
        ELSE bits[c + 8 * (k - 1 - ((i - c - 1) \div 8)) + ((i - c - 1) % 8) + 1]]

\* C1: when a blueprint extracts an input without error, constructing with
\* the same blueprint from the extracted tree, and finalizing, gives a
\* buffer whose bytes equal the input.  Stated for the runs in which the
\* input is not empty, the blueprint walked over all of it and every bit of
\* it is zero, so that no bit a skip passed over is lost.
C1_RoundTripBytes ==
    (/\ phase = "constructed"
     /\ Len(X) > 0
     /\ Maker_tell_buffer(ex) = 8 * Len(X)
     /\ \A i \in 1..Len(X) : X[i] = 0)
    => (con.err = "" /\ Maker_bytes(con) = X)

\* C2: extracting with the blueprint from the bytes constructed with it from
\* a tree it extracted gives that tree again.
C2_RoundTripTree ==
    phase = "reextracted"
    => (rt.err = "" /\ rt.data_structure = Maker_data_structure(ex))

\* C3: after a successful jump js<k> the first bit at the cursor is the bit
\* that was at position k of the input, whatever pulls and reversals came
\* before (no bit was inverted).
C3_JumpTarget ==
    (/\ phase = "extract"
     /\ ex.err = ""
     /\ Len(prog) > 0
     /\ Last(prog).code = "js"
     /\ \A i \in 1..Len(prog) : prog[i].code # "i"
     /\ Last(prog).a < 8 * Len(X)
     /\ Maker_tell_buffer(ex) < 8 * Len(Maker_bytes(ex)))
    => BitAt(Maker_bytes(ex), Maker_tell_buffer(ex)) = BitAt(X, Last(prog).a)

\* the tree [[16, 8], 0x77] of scenario S5
S5_tree == ListV(<<ListV(<<IntV(16), IntV(8)>>), IntV(119)>>)

\* C4: the blueprint m^"AA" u8 m$"AA" extracts [[16, 8], 0x77] from
\* 11 22 AA 77 without error, and constructing from that tree gives
\* 11 22 AA 77 again.
C4_MarkerScan ==
    X = S5_input
    => /\ ex.err = ""
       /\ phase # "extract" => Maker_data_structure(ex) = S5_tree
       /\ phase = "constructed" => (con.err = "" /\ Maker_bytes(con) = S5_input)

\* C5: p<m>.<n> at the cursor c turns the layout S|M|N|E into S|N|M|E, keeps
\* the cursor at c, and leaves the buffer that r<m+n> r<n> r<n>.<m> leave.
C5_Pull ==
    (/\ phase = "extract"
     /\ Len(prog) > 0
     /\ Last(prog).code = "p"
     /\ OnlySkips(Front(prog))
     /\ SkippedBits(Front(prog)) + Last(prog).a + Last(prog).b <= 8 * Len(X))
    => /\ ex.err = ""
       /\ Maker_tell_buffer(ex) = SkippedBits(Front(prog))
       /\ BitsOf(Maker_bytes(ex)) =
             PullLayout(BitsOf(X), SkippedBits(Front(prog)), Last(prog).a, Last(prog).b)
       /\ Maker_bytes(ex) =
             Maker_bytes(Extractor_call(
                 Extractor_init(X),
                 Front(prog) \o <<ModTok("r", Last(prog).a + Last(prog).b),
                                  ModTok("r", Last(prog).b),
                                  ModoffTok("r", Last(prog).b, Last(prog).a)>>,
                 "continue"))

\* C6: e<8k> at the cursor c reverses the order of the k bytes at c, keeps
\* the bit order inside each byte and the cursor; executed twice it restores
\* the buffer.
C6_EndianSwap ==
    /\ (/\ phase = "extract"
        /\ Len(prog) > 0
        /\ Last(prog).code = "e"
        /\ OnlySkips(Front(prog))
        /\ SkippedBits(Front(prog)) + Last(prog).a <= 8 * Len(X))
       => /\ ex.err = ""
          /\ Maker_tell_buffer(ex) = SkippedBits(Front(prog))
          /\ BitsOf(Maker_bytes(ex)) =
                ByteSwapLayout(BitsOf(X), SkippedBits(Front(prog)), Last(prog).a \div 8)
    /\ (/\ phase = "extract"
        /\ Len(prog) > 1
        /\ Last(prog).code = "e"
        /\ prog[Len(prog) - 1] = Last(prog)
        /\ OnlySkips(SubSeq(prog, 1, Len(prog) - 2))
        /\ SkippedBits(SubSeq(prog, 1, Len(prog) - 2)) + Last(prog).a <= 8 * Len(X))
       => /\ ex.err = ""
          /\ Maker_tell_buffer(ex) = SkippedBits(SubSeq(prog, 1, Len(prog) - 2))
          /\ Maker_bytes(ex) = X

\* C7: r<n> executed twice, or i<n> executed twice, at a cursor c with
\* c + n inside the buffer leaves every bit of the buffer and the cursor as
\* they were.
C7_Involution ==
    (/\ phase = "extract"
     /\ Len(prog) > 1
     /\ Last(prog).code \in {"r", "i"}
     /\ ~Last(prog).dot
     /\ prog[Len(prog) - 1] = Last(prog)
     /\ OnlySkips(SubSeq(prog, 1, Len(prog) - 2))
     /\ SkippedBits(SubSeq(prog, 1, Len(prog) - 2)) + Last(prog).a <= 8 * Len(X))
    => /\ ex.err = ""
       /\ Maker_tell_buffer(ex) = SkippedBits(SubSeq(prog, 1, Len(prog) - 2))
       /\ Maker_bytes(ex) = X

\* the token r<n>, i<n> or e<n> that a setting Ry, Iy or Ey stands for
SettingModTok(setting_tok, n) ==
    ModTok(CASE setting_tok.code = "R" -> "r"
             [] setting_tok.code = "I" -> "i"
             [] setting_tok.code = "E" -> "e", n)

\* the extractor after r<n> u<n> (i<n> u<n>, e<n> u<n>) with no setting
WithoutSetting(setting_tok, value_tok) ==
    Extractor_call(Extractor_init(X),
                   <<SettingModTok(setting_tok, value_tok.a), value_tok>>, "continue")

\* C8: with Ry set, u<n> extracts the value and leaves the buffer that
\* r<n> u<n> do with the setting off; the same for Iy with i<n> and Ey with
\* e<n>.
C8_SettingSymmetry ==
    (/\ phase = "extract"
     /\ Len(prog) = 2
     /\ prog[1].code \in {"R", "I", "E"}
     /\ prog[1].s = "y"
     /\ prog[2].code = "u"
     /\ prog[2].a <= 8 * Len(X))
    => /\ ex.err = ""
       /\ WithoutSetting(prog[1], prog[2]).err = ""
       /\ ex.data_stream = WithoutSetting(prog[1], prog[2]).data_stream
       /\ Maker_bytes(ex) = Maker_bytes(WithoutSetting(prog[1], prog[2]))

\* the two translations undo each other at p under the log of a maker
TranslationsInverseAt(maker, p) ==
    /\ Maker_translate_from_original(maker.mod_operations, p).err = ""
    /\ Maker_translate_to_original(maker.mod_operations, p).err = ""
    /\ Maker_translate_to_original(
          maker.mod_operations,
          Maker_translate_from_original(maker.mod_operations, p).pos).pos = p
    /\ Maker_translate_from_original(
          maker.mod_operations,
          Maker_translate_to_original(maker.mod_operations, p).pos).pos = p

\* C9: under every modification log an extraction reaches, and for every
\* position p from 0 to the length of the buffer, translating p from the
\* original coordinates and back, and the other way round, gives p.
C9_TranslationInverse ==
    \A p \in 0..(8 * Len(Maker_bytes(ex))) : TranslationsInverseAt(ex, p)

\* C9, its case: a log of three or more reversals that moves a position
C9_Witness ==
    /\ ex.err = ""
    /\ Len(ex.mod_operations) >= 3
    /\ \E p \in 0..(8 * Len(Maker_bytes(ex))) :
          /\ Maker_translate_from_original(ex.mod_operations, p).pos # p
          /\ TranslationsInverseAt(ex, p)

\* a step of the blueprint that executes #"L", one that executes !#"L"=expr;
LabelStep == prog' # prog /\ Last(prog').code = "#"
DefLabelStep == prog' # prog /\ Last(prog').code = "!#"

\* C10: the label read maker["L"] gives the value bound by the most recent
\* #"L", the last value at that moment: a #"L" step makes it the last value,
\* and no other step changes it (a !#"L"=expr; step apart, which binds too).
C10_LabelRecency ==
    [][/\ LabelStep => Maker_getitem(ex', Last(prog').s) = ex.last_value
       /\ (~LabelStep /\ ~DefLabelStep /\ "L" \in DOMAIN ex.labels)
          => ("L" \in DOMAIN ex'.labels
              /\ Maker_getitem(ex', "L") = Maker_getitem(ex, "L"))]_vars

\* C10, its case: L was bound twice, to two different values, and the label
\* read gives the second
C10_Witness ==
    /\ ex.err = ""
    /\ "L" \in DOMAIN ex.labels
    /\ Len(ex.labels["L"]) >= 2
    /\ ex.labels["L"][1].value # ex.labels["L"][2].value
    /\ Maker_getitem(ex, "L") = ex.labels["L"][Len(ex.labels["L"])].value
    /\ Maker_getitem(ex, "L") # ex.labels["L"][1].value

\* C11: after !#"L"=expr; is executed, maker["L"] is the literal value of
\* expr: in extraction right after the step, in construction at the end of a
\* blueprint whose last label instruction is !#"L"=expr;.
C11_DefLabel ==
    /\ (phase = "extract" /\ Len(prog) > 0 /\ Last(prog).code = "!#")
       => (/\ ex.err = ""
           /\ "L" \in DOMAIN ex.labels
           /\ Maker_getitem(ex, "L") = IntV(Last(prog).a))
    /\ (phase = "constructed" /\ Len(prog) > 0 /\ Last(prog).code = "!#")
       => (/\ con.err = ""
           /\ "L" \in DOMAIN con.labels
           /\ Maker_getitem(con, "L") = IntV(Last(prog).a))

\* C12: flatten and deflatten are exact inverses: deflatten of what flatten(T)
\* returned is T, and flatten of what deflatten(s, xs) returned is (xs, s).
C12_FlattenDeflatten ==
    /\ (phase = "flatten" /\ "T" \in DOMAIN X /\ con # None)
       => (con.err = "" /\ con.data_structure = X.T)
    /\ (phase = "flatten" /\ "s" \in DOMAIN X /\ con # None)
       => con.err = ""
    /\ (phase = "flatten" /\ "s" \in DOMAIN X /\ ex # None)
       => ex = [data_stream |-> X.xs, structure_pattern |-> X.s]

\* C12, its cases: a tree with an empty sub-list and a nested value went
\* through flatten then deflatten; a pattern with an empty sub-list went
\* through deflatten then flatten
C12_Witness ==
    /\ phase = "flatten" /\ "T" \in DOMAIN X
    /\ X.T = ListV(<<ListV(<< >>), ListV(<<IntV(1)>>), IntV(2)>>)
    /\ con # None
    /\ con.data_structure = X.T

\* the tree [5, b"hi"] of scenario S6
S6_tree == ListV(<<IntV(5), BytesV(<<104, 105>>)>>)

\* the blueprint so far is skips of whole bytes followed by B$
TakeAllAligned ==
    /\ phase = "extract"
    /\ Len(prog) > 0
    /\ Last(prog).text = "B$"
    /\ \A i \in 1..(Len(prog) - 1) : prog[i].text = "n8"
    /\ 8 * (Len(prog) - 1) < 8 * Len(X)

\* C13: B$ at a byte-aligned cursor appends the remaining bytes as one bytes
\* value and leaves the cursor at the end of the buffer; u8 B$ on 05 'h' 'i'
\* gives [5, b"hi"].
C13_TakeAll ==
    /\ X = S6_input
       => (/\ ex.err = ""
           /\ prog = S6_blueprint => Maker_data_structure(ex) = S6_tree)
    /\ TakeAllAligned
       => (/\ ex.err = ""
           /\ Maker_tell_buffer(ex) = 8 * Len(X)
           /\ ex.last_value = BytesV(SubSeq(X, Len(prog), Len(X))))

\* a token whose size is "to end": r<m>.$, i<m>.$, p<m>.$, or a jump js<k>
\* that pulls (k > 0 at cursor 0)
ToEndTok(tok) == (tok.dot /\ tok.b = ToEnd) \/ (tok.code = "js" /\ tok.a > 0)

\* C14: an operation whose size is "to end", run at cursor 0 with m bits
\* before the span, appends exactly the one value n = buffer_length - m to the
\* data in extraction, and construction with the same blueprint consumes
\* exactly that one value.
C14_ToEnd ==
    (Len(prog) = 1 /\ ToEndTok(prog[1]) /\ prog[1].a <= 8 * Len(X))
    => (/\ ex.err = ""
        /\ ex.data_stream = <<IntV(8 * Len(X) - prog[1].a)>>
        /\ phase = "constructed"
           => (/\ con.err = ""
               /\ con.flat_pos = 1
               /\ con.last_value = IntV(8 * Len(X) - prog[1].a)))

(***************************************************************************)
(* Properties of the BitsIO operations.                                    *)
(***************************************************************************)
\* the unsigned integer whose n binary digits, most significant first, are
\* bits c .. c+n-1 of a bytes object
RECURSIVE SpanValue(_, _, _)
SpanValue(bytes_data, c, n) ==
    IF n = 0 THEN 0
    ELSE 2 * SpanValue(bytes_data, c, n - 1) + BitAt(bytes_data, c + n - 1)

\* the last operation applied to the BitsIO was op
LastOp(op) == phase = "io" /\ Len(prog) > 0 /\ Last(prog).op = op

\* C15: a read(n) with n > 0 at a cursor c with c + n <= 8*|B| returns
\* (v, n), v being the integer whose binary digits are buffer bits
\* c .. c+n-1, and makes the cursor c + n
C15_ReadSpan ==
    (LastOp("read") /\ ex.bit_seek_pos + Last(prog).a <= 8 * Len(ex.buf))
    => (/\ con.err = ""
        /\ rt = [value |-> SpanValue(ex.buf, ex.bit_seek_pos, Last(prog).a),
                 num_bits |-> Last(prog).a]
        /\ con.bit_seek_pos = ex.bit_seek_pos + Last(prog).a)

\* every bit of the buffer before position lo and from position hi on has
\* the value it had before the last operation
FrameKept(lo, hi) ==
    /\ Len(con.buf) = Len(ex.buf)
    /\ \A i \in 0..(8 * Len(ex.buf) - 1) :
          (i < lo \/ i >= hi) => BitAt(con.buf, i) = BitAt(ex.buf, i)

\* the last operation was write(v, n) with 0 <= v < 2^n
WriteCase == LastOp("write") /\ Last(prog).a < Pow2(Last(prog).b)

\* C16: write(v, n) with n > 0 at cursor c makes the cursor c + n and buffer
\* bits c .. c+n-1 the n binary digits of v, and leaves every other bit of
\* the buffer as it was
C16_WriteFrame ==
    WriteCase
    => (/\ con.err = ""
        /\ con.bit_seek_pos = ex.bit_seek_pos + Last(prog).b
        /\ 8 * Len(con.buf) >= ex.bit_seek_pos + Last(prog).b
        /\ SpanValue(con.buf, ex.bit_seek_pos, Last(prog).b) = Last(prog).a
        /\ \A i \in 0..(8 * Len(ex.buf) - 1) :
              (i < ex.bit_seek_pos \/ i >= ex.bit_seek_pos + Last(prog).b)
              => BitAt(con.buf, i) = BitAt(ex.buf, i))

\* the same inside the buffer (c + n <= 8*|B|)
WriteFrameInside ==
    (WriteCase /\ ex.bit_seek_pos + Last(prog).b <= 8 * Len(ex.buf))
    => (/\ con.err = ""
        /\ con.bit_seek_pos = ex.bit_seek_pos + Last(prog).b
        /\ SpanValue(con.buf, ex.bit_seek_pos, Last(prog).b) = Last(prog).a
        /\ FrameKept(ex.bit_seek_pos, ex.bit_seek_pos + Last(prog).b))

\* the last operation was seek(off, SEEK_CUR) with c + off >= 0
SeekCurCase ==
    LastOp("seek") /\ Last(prog).b = SEEK_CUR /\ ex.bit_seek_pos + Last(prog).a >= 0

\* C17: seek(off, SEEK_CUR) at cursor c with c + off >= 0 makes the cursor
\* c + off and returns c + off
C17_SeekCur ==
    SeekCurCase
    => (/\ con.err = ""
        /\ con.bit_seek_pos = ex.bit_seek_pos + Last(prog).a
        /\ rt = IntV(ex.bit_seek_pos + Last(prog).a))

\* C18: after any sequence of seek, read, write, reverse, invert and find
\* calls the bit cursor c satisfies 0 <= c <= 8*|B|
C18_CursorInBuffer ==
    phase = "io" => (con.bit_seek_pos >= 0 /\ con.bit_seek_pos <= 8 * Len(con.buf))

\* sub starts at byte i + 1 of a bytes object
OccursAt(bytes_data, sub, i) ==
    i + Len(sub) <= Len(bytes_data) /\ SubSeq(bytes_data, i + 1, i + Len(sub)) = sub

\* the byte positions at or after the cursor of ex where the literal of the
\* last find starts
FindHits ==
    {i \in (ex.bit_seek_pos \div 8)..Len(ex.buf) : OccursAt(ex.buf, Last(prog).a, i)}

\* C19: find(sub) fails when the cursor is not on a byte boundary; when it
\* is and sub occurs at or after the cursor, find returns 8 times the
\* number of bytes from the cursor to the first occurrence and leaves the
\* cursor and the buffer as they were
C19_Find ==
    LastOp("find")
    => (/\ ex.bit_seek_pos % 8 # 0 => (con.err # "" /\ rt = None)
        /\ (ex.bit_seek_pos % 8 = 0 /\ FindHits # {})
           => (/\ con = ex
               /\ \E i \in FindHits :
                     /\ \A j \in FindHits : i <= j
                     /\ rt = IntV(8 * (i - ex.bit_seek_pos \div 8))))

\* a find from the second byte that found its literal in the third
C19_Witness ==
    /\ LastOp("find") /\ Len(prog) = 2
    /\ ex.bit_seek_pos = 8 /\ rt = IntV(8) /\ Last(prog).a = <<178>>
    /\ X = <<18, 18, 178>>

(***************************************************************************)
(* Properties of bit_utils.                                                *)
(***************************************************************************)
\* C20: bytes_to_uint, given lstrip = loffset, rstrip = (8 - (loffset + n)
\* mod 8) mod 8 and the same reverse and invert flags, returns (u, n) on
\* the bytes uint_to_bytes(u, n, loffset, 0, 0, reverse, invert) returned
C20_BytesUintInverse ==
    (phase = "bit_utils" /\ con # None)
    => con = [err |-> "", value |-> X.uint, num_bits |-> X.num_bits]

\* C21: for n >= 1 and 0 <= u < 2^n, uint_encode(uint_decode(u, n, enc), n,
\* enc) = u for enc UINT, SINT, LHEX, UHEX, BINS; the SINT value decoded is
\* u - 2^n when bit n-1 of u is set and u otherwise, so it lies in
\* -2^(n-1) .. 2^(n-1) - 1
C21_EncodeDecode ==
    (phase = "encoding" /\ ex # None)
    => (/\ con # None => con = IntV(X.uint)
        /\ X.encoding = "SINT"
           => (/\ ex = IntV(IF (X.uint \div Pow2(X.num_bits - 1)) % 2 = 1
                            THEN X.uint - Pow2(X.num_bits) ELSE X.uint)
               /\ ex.i >= -Pow2(X.num_bits - 1)
               /\ ex.i <= Pow2(X.num_bits - 1) - 1))

\* a negative SINT value and a hex str with a letter, both encoded back
C21_Witness ==
    /\ phase = "encoding" /\ con = IntV(X.uint) /\ X.num_bits = 5
    /\ \/ X.encoding = "SINT" /\ ex.i < 0
       \/ X.encoding = "UHEX" /\ ex = CharsV(<<"1", "B">>)

(***************************************************************************)
(* Properties of pattern_parse.                                            *)
(***************************************************************************)
\* the encoding the grammar gives a value token
GrammarEncoding(code) ==
    CASE code = "u" -> "UINT" [] code = "s" -> "SINT" [] code = "x" -> "LHEX"
      [] code = "X" -> "UHEX" [] code = "b" -> "BINS" [] code = "B" -> "BYTS"
      [] code = "C" -> "CHAR" [] code = "f" -> IF X.a = 32 THEN "SPFP" ELSE "DPFP"

\* C22: every value token u<n>, s<n>, f32, f64, x<n>, X<n>, b<n>, B<n>, C<n>
\* is accepted by pattern_parse and yields one VALUE instruction of width n
\* with the encoding of its code
C22_ValueTokens ==
    (phase = "parse" /\ ex # None)
    => (/\ Len(ex.instructions) = 1
        /\ ex.instructions[1].err = ""
        /\ ex.instructions[1].directive = "VALUE"
        /\ ex.instructions[1].num_bits = X.a
        /\ ex.instructions[1].encoding = GrammarEncoding(X.code))

(***************************************************************************)
(* Properties of the modifiers, repetitions and errors of an extraction.   *)
(***************************************************************************)
\* the extractor before the last token of prog was executed
BeforeLast == Extractor_call(Extractor_init(X), Front(prog), "continue")

\* C23: the token i$ inverts every bit from the cursor to the end of the
\* buffer and r$ reverses them; the cursor stays where it was and one
\* modification of the token's kind (INVERT for i$, REVERSE for r$) with the
\* size "to end" is appended to the log
C23_ModToEnd ==
    (phase = "extract" /\ Len(prog) > 0 /\ Last(prog).code \in {"r$", "i$"})
    => LET c == Maker_tell_buffer(BeforeLast)
           old == BitsOf(Maker_bytes(BeforeLast))
           new == BitsOf(Maker_bytes(ex))
       IN  /\ ex.err = ""
           /\ Maker_tell_buffer(ex) = c
           /\ Len(new) = Len(old)
           /\ \A i \in 1..Len(old) :
                 new[i] = IF i <= c THEN old[i]
                          ELSE IF Last(prog).code = "i$" THEN 1 - old[i]
                          ELSE old[Len(old) + c + 1 - i]
           /\ ex.mod_operations =
                 Append(BeforeLast.mod_operations,
                        [tok |-> Last(prog).text,
                         modtype |-> IF Last(prog).code = "i$" THEN "INVERT" ELSE "REVERSE",
                         start |-> c, offset |-> 0, num_bits |-> ToEnd])

\* body n times over
RECURSIVE repeated(_, _)
repeated(body, n) == IF n = 0 THEN << >> ELSE body \o repeated(body, n - 1)

\* the tokens of a pattern with every {body}n written out
RECURSIVE expansion(_)
expansion(items) ==
    IF Len(items) = 0 THEN << >>
    ELSE IF Head(items).code = "{"
    THEN LET close == capture_close(items, 1, 0)
         IN  repeated(expansion(SubSeq(items, 2, close - 1)), items[close].a)
             \o expansion(SubSeq(items, close + 1, Len(items)))
    ELSE <<Head(items)>> \o expansion(Tail(items))

\* the blueprint run so far ends with the '}<n>' of an outermost repetition,
\* and every repetition in it has a number for its count
RepetitionClosed ==
    /\ phase = "extract"
    /\ Len(prog) > 0
    /\ Last(prog).code = "}"
    /\ repetition_depth(prog) = 0
    /\ \A k \in 1..Len(prog) :
          /\ repetition_depth(SubSeq(prog, 1, k)) >= 0
          /\ prog[k].code = "}" => prog[k].a # ToEnd

\* the extractor is the one the written-out blueprint leaves
RepetitionExpanded ==
    RepetitionClosed =>
        ex \in {Extractor_call(Extractor_init(X), expansion(prog), dbg) :
                   dbg \in DebuggerOutcomes}

\* C24: {body}n executes the instructions of body n times in order, a nested
\* repetition expanded inside every iteration, so the extraction is the one
\* of the written-out blueprint; {u8}3 on 01 02 03 yields [1, 2, 3]
C24_Repetition ==
    /\ RepetitionExpanded
    /\ (X = S4_input /\ prog = S4_blueprint /\ phase = "extract") =>
          /\ ex.err = ""
          /\ Maker_data_structure(ex) = ListV(<<IntV(1), IntV(2), IntV(3)>>)

\* the blueprint run so far ends with the '}$' of an outermost repetition
UnboundedClosed ==
    /\ phase = "extract"
    /\ Len(prog) > 0
    /\ Last(prog).code = "}"
    /\ Last(prog).a = ToEnd
    /\ repetition_depth(SubSeq(prog, 1, Len(prog) - 1)) = 1

\* C25: the extraction of {body}$ whose body consumes at least one bit per
\* iteration ends without an exception once the buffer is exhausted, the body
\* executed once per complete iteration: {u8}$ on 01 02 yields [1, 2]
C25_UnboundedEnds ==
    UnboundedClosed =>
        /\ ex.err = ""
        /\ (X = Unbounded_input /\ prog = Unbounded_blueprint) =>
              Maker_data_structure(ex) = ListV(<<IntV(1), IntV(2)>>)

\* the position in the original a jump aims at, from the cursor pos of a
\* maker whose buffer holds L bits
JumpOrigin(maker, tok, pos, L) ==
    CASE tok.code = "js" -> [err |-> "", pos |-> tok.a]
      [] tok.code = "je" -> [err |-> "", pos |-> L - tok.a]
      [] tok.code = "jf" ->
           LET here == Maker_translate_to_original(maker.mod_operations, pos)
           IN  [here EXCEPT !.pos = @ + tok.a]
      [] tok.code = "jb" ->
           LET here == Maker_translate_to_original(maker.mod_operations, pos)
           IN  [here EXCEPT !.pos = @ - tok.a]

\* the translated target of the jump tok
JumpTarget(maker, tok) ==
    LET origin == JumpOrigin(maker, tok, Maker_tell_buffer(maker),
                             BitsIO_len(maker.bit_stream))
    IN  IF origin.err # "" THEN origin
        ELSE Maker_translate_from_original(maker.mod_operations, origin.pos)

\* the last token of the blueprint run so far is a jump the extractor
\* BeforeLast executed, and its target translates
JumpCase ==
    /\ phase = "extract"
    /\ Len(prog) > 0
    /\ Last(prog).code \in {"js", "jf", "jb", "je"}
    /\ repetition_depth(Front(prog)) = 0
    /\ BeforeLast.err = ""
    /\ JumpTarget(BeforeLast, Last(prog)).err = ""

\* C26: a jump of any type whose translated target lies before the cursor
\* fails with the error of a jump to an already parsed location and pulls
\* nothing; one whose target lies after the cursor performs exactly one pull
\* of unknown size
C26_Jump ==
    JumpCase =>
        LET pos == Maker_tell_buffer(BeforeLast)
            target == JumpTarget(BeforeLast, Last(prog)).pos
            jumping == [BeforeLast EXCEPT !.tok = Last(prog).text]
        IN  /\ target < pos =>
                  /\ ex.err = "Exception"
                  /\ ex.mod_operations = BeforeLast.mod_operations
                  /\ ex.bit_stream.buf = BeforeLast.bit_stream.buf
            /\ target > pos => ex = Extractor_pull_None(jumping, target - pos)

\* the '[' still open after the tokens p
RECURSIVE open_brackets(_)
open_brackets(p) ==
    IF Len(p) = 0 THEN 0
    ELSE open_brackets(Front(p))
         + (CASE Last(p).code = "[" -> 1
              [] Last(p).code = "]" -> -1
              [] OTHER -> 0)

\* the constructor after Constructor.__call__ on the tokens p, with the data
\* the extractor holds
Constructing(p) == Constructor_call(Constructor_init(Maker_data_structure(ex)), p)

\* the last token of the blueprint run so far is a ']' executed with no '['
\* open
UnopenedClose ==
    /\ phase = "extract"
    /\ Len(prog) > 0
    /\ Last(prog).code = "]"
    /\ \A k \in 1..Len(prog) : prog[k].code \notin {"{", "}"}
    /\ open_brackets(Front(prog)) = 0
    /\ BeforeLast.err = ""

\* finalize was called with a '[' of the blueprint still open
UnclosedOpen ==
    /\ phase = "finalized"
    /\ \A k \in 1..Len(prog) : prog[k].code \notin {"{", "}"}
    /\ open_brackets(prog) > 0

\* C27: unbalanced brackets produce NestingError in extraction and in
\* construction: a ']' with no open '[' fails when it is executed, a '['
\* still open at finalize fails at finalize
C27_Nesting ==
    /\ UnopenedClose =>
          /\ ex.err = "NestingError"
          /\ Constructing(Front(prog)).err = "" => Constructing(prog).err = "NestingError"
    /\ UnclosedOpen =>
          /\ ex.err = "NestingError"
          /\ Constructing(prog).err = "" =>
                Constructor_finalize(Constructing(prog)).err = "NestingError"

\* the last token of the blueprint run so far is a value, zeros or ones token
\* the extractor BeforeLast executed with fewer bits left than it asks for
ShortRead ==
    /\ phase = "extract"
    /\ Len(prog) > 0
    /\ Last(prog).code \in {"u", "s", "x", "X", "b", "B", "C", "z", "o"}
    /\ repetition_depth(Front(prog)) = 0
    /\ BeforeLast.err = ""
    /\ BitsIO_len(BeforeLast.bit_stream) - Maker_tell_buffer(BeforeLast) < Last(prog).a

\* no value was appended to the data tree or to the data stream
NothingAppended ==
    ShortRead =>
        /\ ex.data_stream = BeforeLast.data_stream
        /\ ex.stack_data = BeforeLast.stack_data

\* C28: a value, zeros or ones token that asks for n bits when fewer than n
\* are left after the cursor fails with IncompleteDataError, and no value is
\* appended to the data tree or to the data stream
C28_IncompleteData ==
    /\ ShortRead => ex.err = "IncompleteDataError"
    /\ NothingAppended

\* the last token of the blueprint run so far is a value token, C<n> apart,
\* of a width that is no multiple of 8, which the extractor BeforeLast
\* executed with Ey active
EndianWidthCase ==
    /\ phase = "extract"
    /\ Len(prog) > 0
    /\ Last(prog).code \in {"u", "s", "x", "X", "b", "B"}
    /\ Last(prog).a % 8 # 0
    /\ repetition_depth(Front(prog)) = 0
    /\ BeforeLast.err = ""
    /\ BeforeLast.endianswap_all

\* the extraction fails with the error of the endian width and swaps nothing
EndianWidthExtraction ==
    EndianWidthCase =>
        /\ ex.err = "Exception"
        /\ (~BeforeLast.reverse_all /\ ~BeforeLast.invert_all) =>
              /\ ex.bit_stream.buf = BeforeLast.bit_stream.buf
              /\ ex.mod_operations = BeforeLast.mod_operations

\* C29: with Ey active a value token, C<n> apart, of a width that is no
\* multiple of 8 is rejected with the error of the endian width, in the
\* extraction when it is executed and in the construction (here from the
\* data [1]) no later than finalize, and no bits are swapped
C29_EndianWidth ==
    /\ EndianWidthExtraction
    /\ (EndianWidthCase /\ prog = EndianWidth_blueprint) =>
          construct(prog, ListV(<<IntV(1)>>)).err = "Exception"

(***************************************************************************)
(* Properties of Constructor.finalize, under SpecFinalize                  *)
(***************************************************************************)
\* one record of the log applied to a stream of L bits: the cursor is put at
\* start+offset and the bits are reversed or inverted
ApplyRecord(io, op, L) ==
    LET n == IF op.num_bits = ToEnd THEN L - (op.start + op.offset) ELSE op.num_bits
        at == BitsIO_seek(io, op.start + op.offset, SEEK_SET)
    IN  CASE op.modtype = "REVERSE" -> BitsIO_reverse(at, n)
          [] op.modtype = "INVERT" -> BitsIO_invert(at, n)
          [] OTHER -> io

\* the records k, k-1, ..., 1 of the log applied in this order, up to the
\* first that raises
RECURSIVE Replay(_, _, _, _)
Replay(io, ops, k, L) ==
    IF k = 0 \/ io.err # "" THEN io
    ELSE Replay(ApplyRecord(io, ops[k], L), ops, k - 1, L)

\* the stream Replay leaves, with the cursor back where it was
Replayed ==
    BitsIO_seek(Replay(ex.bit_stream, ex.mod_operations, Len(ex.mod_operations),
                       BitsIO_len(ex.bit_stream)),
                BitsIO_tell(ex.bit_stream), SEEK_SET)

\* finalize was called on a constructor with no '[' open
FinalizeCase ==
    /\ phase = "finalize"
    /\ Len(ex.stack) = 1

\* every record of the log lies inside the buffer
RecordsInside ==
    \A k \in 1..Len(ex.mod_operations) :
        LET op == ex.mod_operations[k]
            L == BitsIO_len(ex.bit_stream)
        IN  op.start + op.offset + finalize_num_bits(op, L) <= L

ModTokenCase ==
    /\ phase = "finalized"
    /\ ex.err = ""
    /\ Len(prog) > 0
    /\ Len(pattern_parse_token(Last(prog))) = 1
    /\ pattern_parse_token(Last(prog))[1].directive \in {"MOD", "MODOFF"}
    /\ ~pattern_parse_token(Last(prog))[1].to_end
    /\ repetition_depth(prog) = 0
    /\ Constructing(Front(prog)).err = ""

\* the token leaves the bits of the buffer and the cursor of the constructor
\* as they were
ModLeavesBits ==
    ModTokenCase =>
        Constructing(prog).bit_stream = Constructing(Front(prog)).bit_stream

\* C31: during construction a modification token changes neither a bit of
\* the buffer nor the cursor, and appends records to the modification log
C31_ModRecorded ==
    ModTokenCase =>
        /\ Constructing(prog).err = ""
        /\ Constructing(prog).bit_stream = Constructing(Front(prog)).bit_stream
        /\ Len(Constructing(prog).mod_operations)
              > Len(Constructing(Front(prog)).mod_operations)
        /\ SubSeq(Constructing(prog).mod_operations, 1,
                  Len(Constructing(Front(prog)).mod_operations))
              = Constructing(Front(prog)).mod_operations

(***************************************************************************)
(* Lazy and eager application of the modification log                      *)
(***************************************************************************)
\* the records k, k+1, ... of the log applied in this order to a stream of L
\* bits, up to the first that raises
RECURSIVE ReplayForward(_, _, _, _)
ReplayForward(io, ops, k, L) ==
    IF k > Len(ops) \/ io.err # "" THEN io
    ELSE ReplayForward(ApplyRecord(io, ops[k], L), ops, k + 1, L)

\* the original input with the whole log of the extractor applied, in log
\* order, the cursor at the start
EagerStream ==
    BitsIO_seek(ReplayForward(BitsIO_init(X), ex.mod_operations, 1, 8 * Len(X)),
                0, SEEK_SET)

\* the values that the value tokens of p, from the i-th on, read from io with
\* no modification applied: n<k> moves the cursor, other tokens do nothing
RECURSIVE eager_values(_, _, _)
eager_values(io, p, i) ==
    IF i > Len(p) THEN << >>
    ELSE LET ins == pattern_parse_token(p[i])[1]
         IN  IF ins.directive = "VALUE"
             THEN <<uint_decode(BitsIO_read(io, ins.num_bits).value,
                                ins.num_bits, ins.encoding)>>
                  \o eager_values(BitsIO_read(io, ins.num_bits).io, p, i + 1)
             ELSE IF ins.directive = "NEXT"
             THEN eager_values(BitsIO_seek(io, ins.num_bits, SEEK_CUR), p, i + 1)
             ELSE eager_values(io, p, i + 1)

\* the bits that the value tokens and the n<k> tokens of p take
RECURSIVE consumed_bits(_)
consumed_bits(p) ==
    IF Len(p) = 0 THEN 0
    ELSE consumed_bits(Front(p))
         + (IF pattern_parse_token(Last(p))[1].directive \in {"VALUE", "NEXT"}
            THEN pattern_parse_token(Last(p))[1].num_bits ELSE 0)

\* the blueprint is made of value tokens, n<k>, modification tokens of a
\* given size and settings, ends with a value token, and the input holds the
\* bits its tokens take
LazyCase ==
    /\ phase = "extract"
    /\ Len(prog) > 0
    /\ \A i \in 1..Len(prog) :
          /\ Len(pattern_parse_token(prog[i])) = 1
          /\ pattern_parse_token(prog[i])[1].err = ""
          /\ pattern_parse_token(prog[i])[1].directive
                \in {"VALUE", "NEXT", "MOD", "MODOFF", "MODSET"}
          /\ ~pattern_parse_token(prog[i])[1].to_end
    /\ pattern_parse_token(Last(prog))[1].directive = "VALUE"
    /\ consumed_bits(prog) <= 8 * Len(X)

\* the bits the extractor holds are the bits of the input with the log
\* applied in log order
LazyBitsEager ==
    (phase = "extract" /\ ex.err = "") => ex.bit_stream.buf = EagerStream.buf

\* C32: the values extracted with each modification applied when its token is
\* reached are the values read, with no modification applied, from the input
\* to which the whole log was applied first in log order
C32_LazyEager ==
    LazyCase =>
        /\ ex.err = ""
        /\ ex.data_stream = eager_values(EagerStream, prog, 1)

(***************************************************************************)
(* Extraction goes forward                                                 *)
(***************************************************************************)
\* the cursor of a maker
CursorOf(maker) == BitsIO_tell(maker.bit_stream)

\* the extractor ran the next token of the blueprint
ExtractionStep == phase = "extract" /\ phase' = "extract" /\ prog' # prog

\* the records the step appended to the log
NewRecords == (Len(ex.mod_operations) + 1)..Len(ex'.mod_operations)

\* the step left the cursor where it was or further, kept the records of
\* the log, and every record it appended names a range that starts at or
\* after the cursor the step began at
StepForward ==
    /\ CursorOf(ex') >= CursorOf(ex)
    /\ SubSeq(ex'.mod_operations, 1, Len(ex.mod_operations)) = ex.mod_operations
    /\ \A k \in NewRecords :
          /\ ex'.mod_operations[k].start >= CursorOf(ex)
          /\ ex'.mod_operations[k].offset >= 0

\* C33: in extraction the cursor never decreases from one instruction to the
\* next, and the range of every record starts at or after the cursor at the
\* time it is recorded
C33_ForwardOnly == [][ExtractionStep => StepForward]_vars

(***************************************************************************)
(* The settings before a value token                                       *)
(***************************************************************************)
\* the blueprint is settings followed by one value token, and the input
\* holds the bits of the token
SettingsCase ==
    /\ phase = "extract"
    /\ Len(prog) >= 2
    /\ \A i \in 1..Len(prog) : Len(pattern_parse_token(prog[i])) = 1
    /\ \A i \in 1..(Len(prog) - 1) :
          pattern_parse_token(prog[i])[1].directive = "MODSET"
    /\ pattern_parse_token(Last(prog))[1].directive = "VALUE"
    /\ pattern_parse_token(Last(prog))[1].num_bits <= 8 * Len(X)
    /\ ex.reverse_all \/ ex.invert_all \/ ex.endianswap_all
    /\ ex.endianswap_all => pattern_parse_token(Last(prog))[1].num_bits % 8 = 0

\* one record of the log, the token apart
LogRecord(modtype, start, offset, num_bits) ==
    [modtype |-> modtype, start |-> start, offset |-> offset, num_bits |-> num_bits]

\* the record op of a log, the token apart
WithoutTok(op) == LogRecord(op.modtype, op.start, op.offset, op.num_bits)

\* the records of a log, the token and the ENDIANCHECK records apart
RECURSIVE Recorded(_)
Recorded(ops) ==
    IF Len(ops) = 0 THEN << >>
    ELSE Recorded(Front(ops))
         \o (IF Last(ops).modtype = "ENDIANCHECK" THEN << >>
             ELSE <<WithoutTok(Last(ops))>>)

\* the records of the settings of maker for n bits at the cursor pos:
\* reverse-all, then invert-all, then endian-swap-all (the reversal of the n
\* bits, then of each byte), which CHAR skips
SettingsRecords(maker, pos, n, encoding) ==
    (IF maker.reverse_all THEN <<LogRecord("REVERSE", pos, 0, n)>> ELSE << >>)
    \o (IF maker.invert_all THEN <<LogRecord("INVERT", pos, 0, n)>> ELSE << >>)
    \o (IF maker.endianswap_all /\ encoding # "CHAR"
        THEN <<LogRecord("REVERSE", pos, 0, n)>>
             \o [i \in 1..(n \div 8) |-> LogRecord("REVERSE", pos, 8 * (i - 1), 8)]
        ELSE << >>)

\* a constructor given one value runs the blueprint
ConstructingValue == Constructor_call(Constructor_init(ListV(<<IntV(0)>>)), prog)

\* in extraction the settings append their records, in their order, before
\* the value token is consumed
ExtractorApplies ==
    SettingsCase =>
        Recorded(ex.mod_operations)
            = SettingsRecords(ex, 0, pattern_parse_token(Last(prog))[1].num_bits,
                              pattern_parse_token(Last(prog))[1].encoding)

\* C34: before a value token is consumed the settings are applied to its n
\* bits in the order reverse-all, invert-all, endian-swap-all, each appending
\* its records in that order, in extraction and in construction
C34_ApplySettings ==
    SettingsCase =>
        /\ Recorded(ex.mod_operations)
              = SettingsRecords(ex, 0, pattern_parse_token(Last(prog))[1].num_bits,
                                pattern_parse_token(Last(prog))[1].encoding)
        /\ Recorded(ConstructingValue.mod_operations)
              = SettingsRecords(ex, 0, pattern_parse_token(Last(prog))[1].num_bits,
                                pattern_parse_token(Last(prog))[1].encoding)

(***************************************************************************)
(* The data stream, the structure pattern and the data tree                *)
(***************************************************************************)
\* an extraction, running or finalized
Extracting == phase \in {"extract", "finalized"}

\* C35: at every point of an extraction the data stream is the in-order list
\* of the leaves of the data tree, the structure pattern holds one '.' per
\* value of the stream, deflatten of the two is the data tree, and after a
\* finalize that succeeds the structure pattern is balanced
C35_StreamAndTree ==
    Extracting =>
        /\ ex.data_stream = flatten(Maker_data_structure(ex)).data_stream
        /\ CountDots(ex.flat_pattern) = Len(ex.data_stream)
        /\ deflatten(ex.flat_pattern, ex.data_stream)
              = [err |-> "", data_structure |-> Maker_data_structure(ex)]
        /\ (phase = "finalized" /\ ex.err = "") => Balanced(ex.flat_pattern, 0)

\* a finalized extraction that put a value into a list and closed the list
C35_Witness ==
    /\ phase = "finalized"
    /\ ex.err = ""
    /\ Len(ex.data_stream) >= 1
    /\ ex.flat_pattern = <<"[", ".", "]">>
    /\ Maker_data_structure(ex) = ListV(<<ListV(<<ex.data_stream[1]>>)>>)

(***************************************************************************)
(* The logs of extraction and construction                                 *)
(***************************************************************************)
\* the Reverse and Invert records of a log over a buffer of L bits, the
\* token apart, a size to the end resolved
RECURSIVE ResolvedRecords(_, _)
ResolvedRecords(ops, L) ==
    IF Len(ops) = 0 THEN << >>
    ELSE ResolvedRecords(Front(ops), L)
         \o (IF Last(ops).modtype \notin {"REVERSE", "INVERT"} THEN << >>
             ELSE <<LogRecord(Last(ops).modtype, Last(ops).start, Last(ops).offset,
                              finalize_num_bits(Last(ops), L))>>)

\* the extraction of X with the blueprint succeeded and was finalized
ExtractedCase == phase = "finalized" /\ ex.err = "" /\ Len(prog) > 0

\* C36: the Reverse and Invert records that the Extractor appends while it
\* extracts X with P are the records the Constructor appends while it
\* constructs with P from the data extracted from X
C36_SameRecords ==
    ExtractedCase =>
        ResolvedRecords(Constructing(prog).mod_operations,
                        BitsIO_len(Constructing(prog).bit_stream))
            = ResolvedRecords(ex.mod_operations, 8 * Len(X))

(***************************************************************************)
(* A write read back, under SpecIO                                         *)
(***************************************************************************)
\* what read(n) returns after seek(c), on the stream the write left
ReadBack(c, n) == BitsIO_read(BitsIO_seek(con, c, SEEK_SET), n)

\* C37: at every cursor c in [0, 8*|B|], for every n >= 1 and every v with
\* 0 <= v < 2^n, write(v, n) succeeds, the buffer holds c + n bits or more
\* afterwards, and seek(c) then read(n) returns (v, n)
C37_WriteReadBack ==
    (WriteCase /\ Last(prog).b >= 1
     /\ ex.bit_seek_pos >= 0 /\ ex.bit_seek_pos <= 8 * Len(ex.buf))
    => (/\ con.err = ""
        /\ 8 * Len(con.buf) >= ex.bit_seek_pos + Last(prog).b
        /\ ReadBack(ex.bit_seek_pos, Last(prog).b).io.err = ""
        /\ ReadBack(ex.bit_seek_pos, Last(prog).b).value = Last(prog).a
        /\ ReadBack(ex.bit_seek_pos, Last(prog).b).num_bits = Last(prog).b)

\* a write of whole bytes from a byte boundary is read back
WriteReadBackBytes ==
    (WriteCase /\ Last(prog).b >= 1
     /\ ex.bit_seek_pos >= 0 /\ ex.bit_seek_pos <= 8 * Len(ex.buf)
     /\ ex.bit_seek_pos % 8 = 0 /\ Last(prog).b % 8 = 0)
    => (/\ con.err = ""
        /\ 8 * Len(con.buf) >= ex.bit_seek_pos + Last(prog).b
        /\ ReadBack(ex.bit_seek_pos, Last(prog).b).io.err = ""
        /\ ReadBack(ex.bit_seek_pos, Last(prog).b).value = Last(prog).a
        /\ ReadBack(ex.bit_seek_pos, Last(prog).b).num_bits = Last(prog).b)

(***************************************************************************)
(* The marker scan, under SpecMarker                                       *)
(***************************************************************************)
\* the scan was made and the literal occurs in no byte at or after the
\* cursor the scan began at
MarkerAbsent ==
    /\ phase = "scanned"
    /\ bytes_find(SubSeq(con.bit_stream.buf,
                         ((CursorOf(con) + 7) \div 8) + 1,
                         Len(con.bit_stream.buf)),
                  MarkerLiteral) = -1

\* the values the scan appended to the data stream
ScanValues ==
    SubSeq(ex.data_stream, Len(con.data_stream) + 1, Len(ex.data_stream))

\* C38: a marker scan for a literal that does not occur at or after the
\* cursor fails with an error and changes neither the buffer nor the data,
\* and the distance m a marker scan appends to the data is never negative
C38_MarkerScan ==
    /\ MarkerAbsent =>
          /\ ex.err # ""
          /\ ex.bit_stream.buf = con.bit_stream.buf
          /\ ex.data_stream = con.data_stream
          /\ ex.stack_data = con.stack_data
    /\ (phase = "scanned" /\ Len(ScanValues) > 0) => ScanValues[1].i >= 0

\* the tokens of the records of a log, in order
Executed(ops) == [i \in 1..Len(ops) |-> ops[i].tok]

\* the texts of the tokens of a pattern with every repetition written out
ExpandedTexts(p) == [i \in 1..Len(expansion(p)) |-> expansion(p)[i].text]

\* the pattern of the call holds a '{' that no '}' closes, followed by a
\* token that logs a record, and the call raised nothing
UnclosedDropped ==
    /\ phase \in {"called", "finalized"}
    /\ ex.err = ""
    /\ repetition_depth(prog) > 0
    /\ Last(prog).code \in {"r", "i"}

\* a call that raises nothing executes what pattern_parse yielded: the
\* written-out pattern when every '{' is closed
ClosedExecuted ==
    (phase \in {"called", "finalized"} /\ ex.err = "" /\ repetition_depth(prog) = 0) =>
        Executed(ex.mod_operations) = ExpandedTexts(prog)

\* C39: no token of a pattern is silently discarded: after a call either an
\* error was raised or every token of the pattern was executed once per
\* iteration of the repetitions around it, and a pattern with a '{' that no
\* '}' closes is rejected with an error
C39_NoTokenDiscarded ==
    (phase \in {"called", "finalized"} /\ ex.err = "") =>
        /\ repetition_depth(prog) = 0
        /\ Executed(ex.mod_operations) = ExpandedTexts(prog)
====
